---- MODULE Spec2Model ----
(***************************************************************************)
(* Outfit recommendation engine of OutfAI                                  *)
(* (src/server/services/outfitRecommendationService.ts).                   *)
(*                                                                         *)
(* Free text (colors, materials, tags) is the sequence of its Unicode      *)
(* code points, so that toLowerCase and String.includes are computed as    *)
(* the code computes them. Identifiers and enumeration values (category,   *)
(* season, weather, mood) are only compared for equality and stay strings. *)
(* An optional field of a JS object is a field that may be missing from    *)
(* the record's DOMAIN.                                                    *)
(***************************************************************************)
EXTENDS Integers, Sequences, FiniteSets, TLC

(***************************************************************************)
(* Bounds of the model.                                                    *)
(***************************************************************************)
\* largest number of garments in a wardrobe
MaxWardrobe == 5
\* largest limitCount of a request (0 .. MaxLimit, or absent)
MaxLimit == 2
\* largest clock reading (Date.now()) of a call
MaxClock == 1
\* how many calls of generateOutfits follow each other
MaxCalls == 3

(***************************************************************************)
(* Text.                                                                   *)
(***************************************************************************)
\* the code points of a string literal; a character outside ASCII is written
\* (U+hex) in the name of the literal
Word(s) ==
    CASE s = "Blue" -> <<66, 108, 117, 101>>
      [] s = "blue" -> <<98, 108, 117, 101>>
      [] s = "orange" -> <<111, 114, 97, 110, 103, 101>>
      [] s = "red" -> <<114, 101, 100>>
      [] s = "green" -> <<103, 114, 101, 101, 110>>
      [] s = "yellow" -> <<121, 101, 108, 108, 111, 119>>
      [] s = "purple" -> <<112, 117, 114, 112, 108, 101>>
      [] s = "black" -> <<98, 108, 97, 99, 107>>
      [] s = "white" -> <<119, 104, 105, 116, 101>>
      [] s = "gray" -> <<103, 114, 97, 121>>
      [] s = "beige" -> <<98, 101, 105, 103, 101>>
      [] s = "navy" -> <<110, 97, 118, 121>>
      [] s = "gold" -> <<103, 111, 108, 100>>
      [] s = "silk" -> <<115, 105, 108, 107>>
      [] s = "wool" -> <<119, 111, 111, 108>>
      [] s = "cotton" -> <<99, 111, 116, 116, 111, 110>>
      [] s = "denim" -> <<100, 101, 110, 105, 109>>
      [] s = "fleece" -> <<102, 108, 101, 101, 99, 101>>
      [] s = "canvas" -> <<99, 97, 110, 118, 97, 115>>
      [] s = "leather" -> <<108, 101, 97, 116, 104, 101, 114>>
      [] s = "metal" -> <<109, 101, 116, 97, 108>>
      [] s = "down" -> <<100, 111, 119, 110>>
      [] s = "synthetic" -> <<115, 121, 110, 116, 104, 101, 116, 105, 99>>
      [] s = "linen" -> <<108, 105, 110, 101, 110>>
      [] s = "formal" -> <<102, 111, 114, 109, 97, 108>>
      [] s = "casual" -> <<99, 97, 115, 117, 97, 108>>
      [] s = "work" -> <<119, 111, 114, 107>>
      [] s = "smart-casual" -> <<115, 109, 97, 114, 116, 45, 99, 97, 115, 117, 97, 108>>
      [] s = "night" -> <<110, 105, 103, 104, 116>>
      [] s = "weekend" -> <<119, 101, 101, 107, 101, 110, 100>>
      [] s = "minimalist" -> <<109, 105, 110, 105, 109, 97, 108, 105, 115, 116>>
      [] s = "bold" -> <<98, 111, 108, 100>>
      [] s = "classic" -> <<99, 108, 97, 115, 115, 105, 99>>
      [] s = "trendy" -> <<116, 114, 101, 110, 100, 121>>
      [] s = "avant-garde" -> <<97, 118, 97, 110, 116, 45, 103, 97, 114, 100, 101>>
      [] s = "versatile-high" -> <<118, 101, 114, 115, 97, 116, 105, 108, 101, 45, 104, 105, 103, 104>>
      [] s = "versatile-medium" -> <<118, 101, 114, 115, 97, 116, 105, 108, 101, 45, 109, 101, 100, 105, 117, 109>>
      [] s = "relaxed" -> <<114, 101, 108, 97, 120, 101, 100>>
      [] s = "structured" -> <<115, 116, 114, 117, 99, 116, 117, 114, 101, 100>>
      [] s = "colorful" -> <<99, 111, 108, 111, 114, 102, 117, 108>>
      [] s = "unique" -> <<117, 110, 105, 113, 117, 101>>
      [] s = "warm" -> <<119, 97, 114, 109>>
      [] s = "soft" -> <<115, 111, 102, 116>>
      [] s = "bright" -> <<98, 114, 105, 103, 104, 116>>
      [] s = "dynamic" -> <<100, 121, 110, 97, 109, 105, 99>>
      [] s = "neutral" -> <<110, 101, 117, 116, 114, 97, 108>>
      [] s = "simple" -> <<115, 105, 109, 112, 108, 101>>
      [] s = "clean" -> <<99, 108, 101, 97, 110>>
      [] s = "vibrant" -> <<118, 105, 98, 114, 97, 110, 116>>
      [] s = "statement" -> <<115, 116, 97, 116, 101, 109, 101, 110, 116>>
      [] s = "eye-catching" -> <<101, 121, 101, 45, 99, 97, 116, 99, 104, 105, 110, 103>>
      [] s = "Wool-Blend" -> <<87, 111, 111, 108, 45, 66, 108, 101, 110, 100>>
      [] s = "comfortable" -> <<99, 111, 109, 102, 111, 114, 116, 97, 98, 108, 101>>
      [] s = "Merino Wool" -> <<77, 101, 114, 105, 110, 111, 32, 87, 111, 111, 108>>
      [] s = "Down" -> <<68, 111, 119, 110>>
      [] s = "Soft Fleece" -> <<83, 111, 102, 116, 32, 70, 108, 101, 101, 99, 101>>
      [] s = "Relaxed" -> <<82, 101, 108, 97, 120, 101, 100>>
      [] s = "silk-lined" -> <<115, 105, 108, 107, 45, 108, 105, 110, 101, 100>>
      [] s = "bold-print" -> <<98, 111, 108, 100, 45, 112, 114, 105, 110, 116>>
      [] s = "(U+00C9)cru" -> <<201, 99, 114, 117>>
      [] s = "(U+00E9)cru" -> <<233, 99, 114, 117>>
      [] s = "(U+0130)pek" -> <<304, 112, 101, 107>>
      [] s = "(U+039F)(U+0394)(U+039F)(U+03A3)" -> <<927, 916, 927, 931>>

\* the simple lowercase mappings of the Unicode Character Database (17.0):
\* <<first, last, step, delta>> maps the code points first, first + step,
\* .., last to themselves + delta
SimpleLowercase ==
    <<<<65, 90, 1, 32>>, <<192, 214, 1, 32>>, <<216, 222, 1, 32>>, <<256,
      302, 2, 1>>, <<306, 310, 2, 1>>, <<313, 327, 2, 1>>, <<330, 374, 2,
      1>>, <<376, 376, 1, -121>>, <<377, 381, 2, 1>>, <<385, 385, 1, 210>>,
      <<386, 388, 2, 1>>, <<390, 390, 1, 206>>, <<391, 391, 1, 1>>, <<393,
      394, 1, 205>>, <<395, 395, 1, 1>>, <<398, 398, 1, 79>>, <<399, 399, 1,
      202>>, <<400, 400, 1, 203>>, <<401, 401, 1, 1>>, <<403, 403, 1, 205>>,
      <<404, 404, 1, 207>>, <<406, 406, 1, 211>>, <<407, 407, 1, 209>>,
      <<408, 408, 1, 1>>, <<412, 412, 1, 211>>, <<413, 413, 1, 213>>, <<415,
      415, 1, 214>>, <<416, 420, 2, 1>>, <<422, 422, 1, 218>>, <<423, 423,
      1, 1>>, <<425, 425, 1, 218>>, <<428, 428, 1, 1>>, <<430, 430, 1,
      218>>, <<431, 431, 1, 1>>, <<433, 434, 1, 217>>, <<435, 437, 2, 1>>,
      <<439, 439, 1, 219>>, <<440, 440, 1, 1>>, <<444, 444, 1, 1>>, <<452,
      452, 1, 2>>, <<453, 453, 1, 1>>, <<455, 455, 1, 2>>, <<456, 456, 1,
      1>>, <<458, 458, 1, 2>>, <<459, 475, 2, 1>>, <<478, 494, 2, 1>>,
      <<497, 497, 1, 2>>, <<498, 500, 2, 1>>, <<502, 502, 1, -97>>, <<503,
      503, 1, -56>>, <<504, 542, 2, 1>>, <<544, 544, 1, -130>>, <<546, 562,
      2, 1>>, <<570, 570, 1, 10795>>, <<571, 571, 1, 1>>, <<573, 573, 1,
      -163>>, <<574, 574, 1, 10792>>, <<577, 577, 1, 1>>, <<579, 579, 1,
      -195>>, <<580, 580, 1, 69>>, <<581, 581, 1, 71>>, <<582, 590, 2, 1>>,
      <<880, 882, 2, 1>>, <<886, 886, 1, 1>>, <<895, 895, 1, 116>>, <<902,
      902, 1, 38>>, <<904, 906, 1, 37>>, <<908, 908, 1, 64>>, <<910, 911, 1,
      63>>, <<913, 929, 1, 32>>, <<931, 939, 1, 32>>, <<975, 975, 1, 8>>,
      <<984, 1006, 2, 1>>, <<1012, 1012, 1, -60>>, <<1015, 1015, 1, 1>>,
      <<1017, 1017, 1, -7>>, <<1018, 1018, 1, 1>>, <<1021, 1023, 1, -130>>,
      <<1024, 1039, 1, 80>>, <<1040, 1071, 1, 32>>, <<1120, 1152, 2, 1>>,
      <<1162, 1214, 2, 1>>, <<1216, 1216, 1, 15>>, <<1217, 1229, 2, 1>>,
      <<1232, 1326, 2, 1>>, <<1329, 1366, 1, 48>>, <<4256, 4293, 1, 7264>>,
      <<4295, 4295, 1, 7264>>, <<4301, 4301, 1, 7264>>, <<5024, 5103, 1,
      38864>>, <<5104, 5109, 1, 8>>, <<7305, 7305, 1, 1>>, <<7312, 7354, 1,
      -3008>>, <<7357, 7359, 1, -3008>>, <<7680, 7828, 2, 1>>, <<7838, 7838,
      1, -7615>>, <<7840, 7934, 2, 1>>, <<7944, 7951, 1, -8>>, <<7960, 7965,
      1, -8>>, <<7976, 7983, 1, -8>>, <<7992, 7999, 1, -8>>, <<8008, 8013,
      1, -8>>, <<8025, 8031, 2, -8>>, <<8040, 8047, 1, -8>>, <<8072, 8079,
      1, -8>>, <<8088, 8095, 1, -8>>, <<8104, 8111, 1, -8>>, <<8120, 8121,
      1, -8>>, <<8122, 8123, 1, -74>>, <<8124, 8124, 1, -9>>, <<8136, 8139,
      1, -86>>, <<8140, 8140, 1, -9>>, <<8152, 8153, 1, -8>>, <<8154, 8155,
      1, -100>>, <<8168, 8169, 1, -8>>, <<8170, 8171, 1, -112>>, <<8172,
      8172, 1, -7>>, <<8184, 8185, 1, -128>>, <<8186, 8187, 1, -126>>,
      <<8188, 8188, 1, -9>>, <<8486, 8486, 1, -7517>>, <<8490, 8490, 1,
      -8383>>, <<8491, 8491, 1, -8262>>, <<8498, 8498, 1, 28>>, <<8544,
      8559, 1, 16>>, <<8579, 8579, 1, 1>>, <<9398, 9423, 1, 26>>, <<11264,
      11311, 1, 48>>, <<11360, 11360, 1, 1>>, <<11362, 11362, 1, -10743>>,
      <<11363, 11363, 1, -3814>>, <<11364, 11364, 1, -10727>>, <<11367,
      11371, 2, 1>>, <<11373, 11373, 1, -10780>>, <<11374, 11374, 1,
      -10749>>, <<11375, 11375, 1, -10783>>, <<11376, 11376, 1, -10782>>,
      <<11378, 11378, 1, 1>>, <<11381, 11381, 1, 1>>, <<11390, 11391, 1,
      -10815>>, <<11392, 11490, 2, 1>>, <<11499, 11501, 2, 1>>, <<11506,
      11506, 1, 1>>, <<42560, 42604, 2, 1>>, <<42624, 42650, 2, 1>>,
      <<42786, 42798, 2, 1>>, <<42802, 42862, 2, 1>>, <<42873, 42875, 2,
      1>>, <<42877, 42877, 1, -35332>>, <<42878, 42886, 2, 1>>, <<42891,
      42891, 1, 1>>, <<42893, 42893, 1, -42280>>, <<42896, 42898, 2, 1>>,
      <<42902, 42920, 2, 1>>, <<42922, 42922, 1, -42308>>, <<42923, 42923,
      1, -42319>>, <<42924, 42924, 1, -42315>>, <<42925, 42925, 1, -42305>>,
      <<42926, 42926, 1, -42308>>, <<42928, 42928, 1, -42258>>, <<42929,
      42929, 1, -42282>>, <<42930, 42930, 1, -42261>>, <<42931, 42931, 1,
      928>>, <<42932, 42946, 2, 1>>, <<42948, 42948, 1, -48>>, <<42949,
      42949, 1, -42307>>, <<42950, 42950, 1, -35384>>, <<42951, 42953, 2,
      1>>, <<42955, 42955, 1, -42343>>, <<42956, 42970, 2, 1>>, <<42972,
      42972, 1, -42561>>, <<42997, 42997, 1, 1>>, <<65313, 65338, 1, 32>>,
      <<66560, 66599, 1, 40>>, <<66736, 66771, 1, 40>>, <<66928, 66938, 1,
      39>>, <<66940, 66954, 1, 39>>, <<66956, 66962, 1, 39>>, <<66964,
      66965, 1, 39>>, <<68736, 68786, 1, 64>>, <<68944, 68965, 1, 32>>,
      <<71840, 71871, 1, 32>>, <<93760, 93791, 1, 32>>, <<93856, 93880, 1,
      27>>, <<125184, 125217, 1, 34>>>>

\* the cased characters that are not case-ignorable, as ranges <<first, last>>
CasedRanges ==
    <<<<65, 90>>, <<97, 122>>, <<170, 170>>, <<181, 181>>, <<186, 186>>,
      <<192, 214>>, <<216, 246>>, <<248, 442>>, <<444, 447>>, <<452, 659>>,
      <<662, 687>>, <<880, 883>>, <<886, 887>>, <<891, 893>>, <<895, 895>>,
      <<902, 902>>, <<904, 906>>, <<908, 908>>, <<910, 929>>, <<931, 1013>>,
      <<1015, 1153>>, <<1162, 1327>>, <<1329, 1366>>, <<1376, 1416>>,
      <<4256, 4293>>, <<4295, 4295>>, <<4301, 4301>>, <<4304, 4346>>,
      <<4349, 4351>>, <<5024, 5109>>, <<5112, 5117>>, <<7296, 7306>>,
      <<7312, 7354>>, <<7357, 7359>>, <<7424, 7467>>, <<7531, 7543>>,
      <<7545, 7578>>, <<7680, 7957>>, <<7960, 7965>>, <<7968, 8005>>,
      <<8008, 8013>>, <<8016, 8023>>, <<8025, 8025>>, <<8027, 8027>>,
      <<8029, 8029>>, <<8031, 8061>>, <<8064, 8116>>, <<8118, 8124>>,
      <<8126, 8126>>, <<8130, 8132>>, <<8134, 8140>>, <<8144, 8147>>,
      <<8150, 8155>>, <<8160, 8172>>, <<8178, 8180>>, <<8182, 8188>>,
      <<8450, 8450>>, <<8455, 8455>>, <<8458, 8467>>, <<8469, 8469>>,
      <<8473, 8477>>, <<8484, 8484>>, <<8486, 8486>>, <<8488, 8488>>,
      <<8490, 8493>>, <<8495, 8500>>, <<8505, 8505>>, <<8508, 8511>>,
      <<8517, 8521>>, <<8526, 8526>>, <<8544, 8575>>, <<8579, 8580>>,
      <<9398, 9449>>, <<11264, 11387>>, <<11390, 11492>>, <<11499, 11502>>,
      <<11506, 11507>>, <<11520, 11557>>, <<11559, 11559>>, <<11565,
      11565>>, <<42560, 42605>>, <<42624, 42651>>, <<42786, 42863>>,
      <<42865, 42887>>, <<42891, 42894>>, <<42896, 42972>>, <<42997,
      42998>>, <<43002, 43002>>, <<43824, 43866>>, <<43872, 43880>>,
      <<43888, 43967>>, <<64256, 64262>>, <<64275, 64279>>, <<65313,
      65338>>, <<65345, 65370>>, <<66560, 66639>>, <<66736, 66771>>,
      <<66776, 66811>>, <<66928, 66938>>, <<66940, 66954>>, <<66956,
      66962>>, <<66964, 66965>>, <<66967, 66977>>, <<66979, 66993>>,
      <<66995, 67001>>, <<67003, 67004>>, <<68736, 68786>>, <<68800,
      68850>>, <<68944, 68965>>, <<68976, 68997>>, <<71840, 71903>>,
      <<93760, 93823>>, <<93856, 93880>>, <<93883, 93907>>, <<119808,
      119892>>, <<119894, 119964>>, <<119966, 119967>>, <<119970, 119970>>,
      <<119973, 119974>>, <<119977, 119980>>, <<119982, 119993>>, <<119995,
      119995>>, <<119997, 120003>>, <<120005, 120069>>, <<120071, 120074>>,
      <<120077, 120084>>, <<120086, 120092>>, <<120094, 120121>>, <<120123,
      120126>>, <<120128, 120132>>, <<120134, 120134>>, <<120138, 120144>>,
      <<120146, 120485>>, <<120488, 120512>>, <<120514, 120538>>, <<120540,
      120570>>, <<120572, 120596>>, <<120598, 120628>>, <<120630, 120654>>,
      <<120656, 120686>>, <<120688, 120712>>, <<120714, 120744>>, <<120746,
      120770>>, <<120772, 120779>>, <<122624, 122633>>, <<122635, 122654>>,
      <<122661, 122666>>, <<125184, 125251>>, <<127280, 127305>>, <<127312,
      127337>>, <<127344, 127369>>>>

\* the case-ignorable characters, as ranges <<first, last>>
CaseIgnorableRanges ==
    <<<<39, 39>>, <<46, 46>>, <<58, 58>>, <<94, 94>>, <<96, 96>>, <<168,
      168>>, <<173, 173>>, <<175, 175>>, <<180, 180>>, <<183, 184>>, <<688,
      879>>, <<884, 885>>, <<890, 890>>, <<900, 901>>, <<903, 903>>, <<1155,
      1161>>, <<1369, 1369>>, <<1375, 1375>>, <<1425, 1469>>, <<1471,
      1471>>, <<1473, 1474>>, <<1476, 1477>>, <<1479, 1479>>, <<1524,
      1524>>, <<1536, 1541>>, <<1552, 1562>>, <<1564, 1564>>, <<1600,
      1600>>, <<1611, 1631>>, <<1648, 1648>>, <<1750, 1757>>, <<1759,
      1768>>, <<1770, 1773>>, <<1807, 1807>>, <<1809, 1809>>, <<1840,
      1866>>, <<1958, 1968>>, <<2027, 2037>>, <<2042, 2042>>, <<2045,
      2045>>, <<2070, 2093>>, <<2137, 2139>>, <<2184, 2184>>, <<2192,
      2193>>, <<2199, 2207>>, <<2249, 2306>>, <<2362, 2362>>, <<2364,
      2364>>, <<2369, 2376>>, <<2381, 2381>>, <<2385, 2391>>, <<2402,
      2403>>, <<2417, 2417>>, <<2433, 2433>>, <<2492, 2492>>, <<2497,
      2500>>, <<2509, 2509>>, <<2530, 2531>>, <<2558, 2558>>, <<2561,
      2562>>, <<2620, 2620>>, <<2625, 2626>>, <<2631, 2632>>, <<2635,
      2637>>, <<2641, 2641>>, <<2672, 2673>>, <<2677, 2677>>, <<2689,
      2690>>, <<2748, 2748>>, <<2753, 2757>>, <<2759, 2760>>, <<2765,
      2765>>, <<2786, 2787>>, <<2810, 2815>>, <<2817, 2817>>, <<2876,
      2876>>, <<2879, 2879>>, <<2881, 2884>>, <<2893, 2893>>, <<2901,
      2902>>, <<2914, 2915>>, <<2946, 2946>>, <<3008, 3008>>, <<3021,
      3021>>, <<3072, 3072>>, <<3076, 3076>>, <<3132, 3132>>, <<3134,
      3136>>, <<3142, 3144>>, <<3146, 3149>>, <<3157, 3158>>, <<3170,
      3171>>, <<3201, 3201>>, <<3260, 3260>>, <<3263, 3263>>, <<3270,
      3270>>, <<3276, 3277>>, <<3298, 3299>>, <<3328, 3329>>, <<3387,
      3388>>, <<3393, 3396>>, <<3405, 3405>>, <<3426, 3427>>, <<3457,
      3457>>, <<3530, 3530>>, <<3538, 3540>>, <<3542, 3542>>, <<3633,
      3633>>, <<3636, 3642>>, <<3654, 3662>>, <<3761, 3761>>, <<3764,
      3772>>, <<3782, 3782>>, <<3784, 3790>>, <<3864, 3865>>, <<3893,
      3893>>, <<3895, 3895>>, <<3897, 3897>>, <<3953, 3966>>, <<3968,
      3972>>, <<3974, 3975>>, <<3981, 3991>>, <<3993, 4028>>, <<4038,
      4038>>, <<4141, 4144>>, <<4146, 4151>>, <<4153, 4154>>, <<4157,
      4158>>, <<4184, 4185>>, <<4190, 4192>>, <<4209, 4212>>, <<4226,
      4226>>, <<4229, 4230>>, <<4237, 4237>>, <<4253, 4253>>, <<4348,
      4348>>, <<4957, 4959>>, <<5906, 5908>>, <<5938, 5939>>, <<5970,
      5971>>, <<6002, 6003>>, <<6068, 6069>>, <<6071, 6077>>, <<6086,
      6086>>, <<6089, 6099>>, <<6103, 6103>>, <<6109, 6109>>, <<6155,
      6159>>, <<6211, 6211>>, <<6277, 6278>>, <<6313, 6313>>, <<6432,
      6434>>, <<6439, 6440>>, <<6450, 6450>>, <<6457, 6459>>, <<6679,
      6680>>, <<6683, 6683>>, <<6742, 6742>>, <<6744, 6750>>, <<6752,
      6752>>, <<6754, 6754>>, <<6757, 6764>>, <<6771, 6780>>, <<6783,
      6783>>, <<6823, 6823>>, <<6832, 6877>>, <<6880, 6891>>, <<6912,
      6915>>, <<6964, 6964>>, <<6966, 6970>>, <<6972, 6972>>, <<6978,
      6978>>, <<7019, 7027>>, <<7040, 7041>>, <<7074, 7077>>, <<7080,
      7081>>, <<7083, 7085>>, <<7142, 7142>>, <<7144, 7145>>, <<7149,
      7149>>, <<7151, 7153>>, <<7212, 7219>>, <<7222, 7223>>, <<7288,
      7293>>, <<7376, 7378>>, <<7380, 7392>>, <<7394, 7400>>, <<7405,
      7405>>, <<7412, 7412>>, <<7416, 7417>>, <<7468, 7530>>, <<7544,
      7544>>, <<7579, 7679>>, <<8125, 8125>>, <<8127, 8129>>, <<8141,
      8143>>, <<8157, 8159>>, <<8173, 8175>>, <<8189, 8190>>, <<8203,
      8207>>, <<8216, 8217>>, <<8228, 8228>>, <<8231, 8231>>, <<8234,
      8238>>, <<8288, 8292>>, <<8294, 8303>>, <<8305, 8305>>, <<8319,
      8319>>, <<8336, 8348>>, <<8400, 8432>>, <<11388, 11389>>, <<11503,
      11505>>, <<11631, 11631>>, <<11647, 11647>>, <<11744, 11775>>,
      <<11823, 11823>>, <<12293, 12293>>, <<12330, 12333>>, <<12337,
      12341>>, <<12347, 12347>>, <<12441, 12446>>, <<12540, 12542>>,
      <<40981, 40981>>, <<42232, 42237>>, <<42508, 42508>>, <<42607,
      42610>>, <<42612, 42621>>, <<42623, 42623>>, <<42652, 42655>>,
      <<42736, 42737>>, <<42752, 42785>>, <<42864, 42864>>, <<42888,
      42890>>, <<42993, 42996>>, <<43000, 43001>>, <<43010, 43010>>,
      <<43014, 43014>>, <<43019, 43019>>, <<43045, 43046>>, <<43052,
      43052>>, <<43204, 43205>>, <<43232, 43249>>, <<43263, 43263>>,
      <<43302, 43309>>, <<43335, 43345>>, <<43392, 43394>>, <<43443,
      43443>>, <<43446, 43449>>, <<43452, 43453>>, <<43471, 43471>>,
      <<43493, 43494>>, <<43561, 43566>>, <<43569, 43570>>, <<43573,
      43574>>, <<43587, 43587>>, <<43596, 43596>>, <<43632, 43632>>,
      <<43644, 43644>>, <<43696, 43696>>, <<43698, 43700>>, <<43703,
      43704>>, <<43710, 43711>>, <<43713, 43713>>, <<43741, 43741>>,
      <<43756, 43757>>, <<43763, 43764>>, <<43766, 43766>>, <<43867,
      43871>>, <<43881, 43883>>, <<44005, 44005>>, <<44008, 44008>>,
      <<44013, 44013>>, <<64286, 64286>>, <<64434, 64450>>, <<65024,
      65039>>, <<65043, 65043>>, <<65056, 65071>>, <<65106, 65106>>,
      <<65109, 65109>>, <<65279, 65279>>, <<65287, 65287>>, <<65294,
      65294>>, <<65306, 65306>>, <<65342, 65342>>, <<65344, 65344>>,
      <<65392, 65392>>, <<65438, 65439>>, <<65507, 65507>>, <<65529,
      65531>>, <<66045, 66045>>, <<66272, 66272>>, <<66422, 66426>>,
      <<67456, 67461>>, <<67463, 67504>>, <<67506, 67514>>, <<68097,
      68099>>, <<68101, 68102>>, <<68108, 68111>>, <<68152, 68154>>,
      <<68159, 68159>>, <<68325, 68326>>, <<68900, 68903>>, <<68942,
      68942>>, <<68969, 68973>>, <<68975, 68975>>, <<69291, 69292>>,
      <<69317, 69317>>, <<69370, 69375>>, <<69446, 69456>>, <<69506,
      69509>>, <<69633, 69633>>, <<69688, 69702>>, <<69744, 69744>>,
      <<69747, 69748>>, <<69759, 69761>>, <<69811, 69814>>, <<69817,
      69818>>, <<69821, 69821>>, <<69826, 69826>>, <<69837, 69837>>,
      <<69888, 69890>>, <<69927, 69931>>, <<69933, 69940>>, <<70003,
      70003>>, <<70016, 70017>>, <<70070, 70078>>, <<70089, 70092>>,
      <<70095, 70095>>, <<70191, 70193>>, <<70196, 70196>>, <<70198,
      70199>>, <<70206, 70206>>, <<70209, 70209>>, <<70367, 70367>>,
      <<70371, 70378>>, <<70400, 70401>>, <<70459, 70460>>, <<70464,
      70464>>, <<70502, 70508>>, <<70512, 70516>>, <<70587, 70592>>,
      <<70606, 70606>>, <<70608, 70608>>, <<70610, 70610>>, <<70625,
      70626>>, <<70712, 70719>>, <<70722, 70724>>, <<70726, 70726>>,
      <<70750, 70750>>, <<70835, 70840>>, <<70842, 70842>>, <<70847,
      70848>>, <<70850, 70851>>, <<71090, 71093>>, <<71100, 71101>>,
      <<71103, 71104>>, <<71132, 71133>>, <<71219, 71226>>, <<71229,
      71229>>, <<71231, 71232>>, <<71339, 71339>>, <<71341, 71341>>,
      <<71344, 71349>>, <<71351, 71351>>, <<71453, 71453>>, <<71455,
      71455>>, <<71458, 71461>>, <<71463, 71467>>, <<71727, 71735>>,
      <<71737, 71738>>, <<71995, 71996>>, <<71998, 71998>>, <<72003,
      72003>>, <<72148, 72151>>, <<72154, 72155>>, <<72160, 72160>>,
      <<72193, 72202>>, <<72243, 72248>>, <<72251, 72254>>, <<72263,
      72263>>, <<72273, 72278>>, <<72281, 72283>>, <<72330, 72342>>,
      <<72344, 72345>>, <<72544, 72544>>, <<72546, 72548>>, <<72550,
      72550>>, <<72752, 72758>>, <<72760, 72765>>, <<72767, 72767>>,
      <<72850, 72871>>, <<72874, 72880>>, <<72882, 72883>>, <<72885,
      72886>>, <<73009, 73014>>, <<73018, 73018>>, <<73020, 73021>>,
      <<73023, 73029>>, <<73031, 73031>>, <<73104, 73105>>, <<73109,
      73109>>, <<73111, 73111>>, <<73177, 73177>>, <<73459, 73460>>,
      <<73472, 73473>>, <<73526, 73530>>, <<73536, 73536>>, <<73538,
      73538>>, <<73562, 73562>>, <<78896, 78912>>, <<78919, 78933>>,
      <<90398, 90409>>, <<90413, 90415>>, <<92912, 92916>>, <<92976,
      92982>>, <<92992, 92995>>, <<93504, 93506>>, <<93547, 93548>>,
      <<94031, 94031>>, <<94095, 94111>>, <<94176, 94177>>, <<94179,
      94180>>, <<94194, 94195>>, <<110576, 110579>>, <<110581, 110587>>,
      <<110589, 110590>>, <<113821, 113822>>, <<113824, 113827>>, <<118528,
      118573>>, <<118576, 118598>>, <<119143, 119145>>, <<119155, 119170>>,
      <<119173, 119179>>, <<119210, 119213>>, <<119362, 119364>>, <<121344,
      121398>>, <<121403, 121452>>, <<121461, 121461>>, <<121476, 121476>>,
      <<121499, 121503>>, <<121505, 121519>>, <<122880, 122886>>, <<122888,
      122904>>, <<122907, 122913>>, <<122915, 122916>>, <<122918, 122922>>,
      <<122928, 122989>>, <<123023, 123023>>, <<123184, 123197>>, <<123566,
      123566>>, <<123628, 123631>>, <<124139, 124143>>, <<124398, 124399>>,
      <<124643, 124643>>, <<124646, 124646>>, <<124654, 124655>>, <<124661,
      124661>>, <<124671, 124671>>, <<125136, 125142>>, <<125252, 125259>>,
      <<127995, 127999>>, <<917505, 917505>>, <<917536, 917631>>, <<917760,
      917999>>>>

\* the code points of a run of SimpleLowercase
RunOf(r) == {r[1] + r[3] * k : k \in 0..((r[2] - r[1]) \div r[3])}

\* the lowercase of every character that has a simple lowercase mapping
LowerCaseMapping ==
    LET mapping(runs) ==
            [c \in UNION {RunOf(runs[i]) : i \in DOMAIN runs} |->
                c + runs[CHOOSE i \in DOMAIN runs : c \in RunOf(runs[i])][4]]
    IN  mapping(SimpleLowercase)

\* the code points of a sequence of ranges
RangesUnion(ranges) == UNION {ranges[i][1]..ranges[i][2] : i \in DOMAIN ranges}

Cased == RangesUnion(CasedRanges)

CaseIgnorable == RangesUnion(CaseIgnorableRanges)

\* the lowercase of one character out of context
toLowerChar(c) ==
    LET lower(mapping) == IF c \in DOMAIN mapping THEN mapping[c] ELSE c
    IN  lower(LowerCaseMapping)

\* what the character is to the casing of its neighbours
caseType(c) ==
    IF c \in CaseIgnorable THEN "ignorable"
    ELSE IF c \in Cased THEN "cased"
    ELSE "none"

\* the condition Final_Sigma of SpecialCasing.txt for the character at i:
\* the nearest character before it that is not case-ignorable is cased, and
\* the nearest such character after it is not
finalSigma(s, i) ==
    \E type \in {[j \in DOMAIN s |-> caseType(s[j])]} :
        /\ \E j \in 1..(i - 1) :
              /\ type[j] = "cased"
              /\ \A k \in (j + 1)..(i - 1) : type[k] = "ignorable"
        /\ ~ \E j \in (i + 1)..Len(s) :
                /\ type[j] = "cased"
                /\ \A k \in (i + 1)..(j - 1) : type[k] = "ignorable"

RECURSIVE Flatten(_)
\* Array.prototype.flat / flatMap: concatenation of a sequence of sequences
Flatten(ss) == IF ss = <<>> THEN <<>> ELSE ss[1] \o Flatten(Tail(ss))

\* String.prototype.toLowerCase: every character by its simple mapping,
\* but capital I with dot above (U+0130) becomes i and a combining dot above
\* (U+0307), and capital sigma (U+03A3) becomes final sigma (U+03C2) where
\* Final_Sigma holds
toLowerCase(s) ==
    Flatten([i \in 1..Len(s) |->
                IF s[i] = 304 THEN <<105, 775>>
                ELSE IF s[i] = 931 /\ finalSigma(s, i) THEN <<962>>
                ELSE <<toLowerChar(s[i])>>])

\* String.prototype.includes: sub occurs in s as a contiguous substring
strIncludes(s, sub) ==
    \E i \in 0..(Len(s) - Len(sub)) : SubSeq(s, i + 1, i + Len(sub)) = sub

\* Array.prototype.includes
arrIncludes(arr, x) == \E i \in DOMAIN arr : arr[i] = x

\* Math.min
Min(a, b) == IF a <= b THEN a ELSE b

RECURSIVE SumSeq(_)
SumSeq(s) == IF s = <<>> THEN 0 ELSE s[1] + SumSeq(Tail(s))

Digits == <<"0", "1", "2", "3", "4", "5", "6", "7", "8", "9">>

RECURSIVE NatToString(_)
NatToString(n) ==
    IF n < 10 THEN <<Digits[n + 1]>>
    ELSE NatToString(n \div 10) \o <<Digits[(n % 10) + 1]>>

\* template-literal conversion of a number to its decimal text
NumberToString(n) == IF n < 0 THEN <<"-">> \o NatToString(-n) ELSE NatToString(n)

\* a JS object property is not undefined: input.temperature !== undefined
Has(obj, field) == field \in DOMAIN obj

\* an optional text property in a condition, if (input.weather): undefined
\* and the empty string are false, every other string is true
truthy(obj, field) == Has(obj, field) /\ obj[field] # ""

\* Object.prototype: the properties an object literal inherits, found by
\* table[key] when key is no own property of the table. The value is
\* written as a text that no string of the program equals, with the value of
\* its property length (<<>> for undefined)
ObjectPrototype ==
    ("constructor"          :> [value |-> <<"function Object">>, length |-> <<1>>]) @@
    ("toString"             :> [value |-> <<"function toString">>, length |-> <<0>>]) @@
    ("toLocaleString"       :> [value |-> <<"function toLocaleString">>, length |-> <<0>>]) @@
    ("valueOf"              :> [value |-> <<"function valueOf">>, length |-> <<0>>]) @@
    ("hasOwnProperty"       :> [value |-> <<"function hasOwnProperty">>, length |-> <<1>>]) @@
    ("isPrototypeOf"        :> [value |-> <<"function isPrototypeOf">>, length |-> <<1>>]) @@
    ("propertyIsEnumerable" :> [value |-> <<"function propertyIsEnumerable">>, length |-> <<1>>]) @@
    ("__defineGetter__"     :> [value |-> <<"function __defineGetter__">>, length |-> <<2>>]) @@
    ("__defineSetter__"     :> [value |-> <<"function __defineSetter__">>, length |-> <<2>>]) @@
    ("__lookupGetter__"     :> [value |-> <<"function __lookupGetter__">>, length |-> <<1>>]) @@
    ("__lookupSetter__"     :> [value |-> <<"function __lookupSetter__">>, length |-> <<1>>]) @@
    ("__proto__"            :> [value |-> <<"object Object.prototype">>, length |-> <<>>])

\* table[key] is an inherited property: none of them is an array
inherited(table, key) == key \notin DOMAIN table /\ key \in DOMAIN ObjectPrototype

\* the error a call of a method the receiver does not have throws
TypeError(message) == [name |-> "TypeError", message |-> message]

\* the value is an error thrown (for values that are records)
isError(value) == "message" \in DOMAIN value

(***************************************************************************)
(* Context filter (filterByContext, lines 114-205).                        *)
(***************************************************************************)
weatherSeasonMap ==
    [sunny  |-> <<"spring", "summer", "all-season">>,
     cloudy |-> <<"spring", "summer", "fall", "all-season">>,
     rainy  |-> <<"spring", "fall", "winter", "all-season">>,
     snowy  |-> <<"winter", "all-season">>,
     windy  |-> <<"fall", "winter", "all-season">>,
     hot    |-> <<"summer", "all-season">>,
     cold   |-> <<"winter", "all-season">>]

\* isSeasonAppropriate throws: the garment is not all-season and
\* weatherSeasonMap[weather] is an inherited property, which is not nullish
\* and has no method includes (lines 150, 162)
isSeasonAppropriateThrows(garmentSeason, weather) ==
    garmentSeason # "all-season" /\ inherited(weatherSeasonMap, weather)

\* isSeasonAppropriate letting summer garments pass when the temperature is
\* above 25
isSeasonAppropriate_byTemperature(garmentSeason, weather, temperature) ==
    IF garmentSeason = "all-season" THEN TRUE
    ELSE IF inherited(weatherSeasonMap, weather)
         THEN TypeError(<<"weatherSeasonMap[weather]?.includes is not a function">>)
    ELSE IF temperature # <<>> /\ temperature[1] > 25 /\ garmentSeason = "summer"
         THEN TRUE
    ELSE IF weather \in DOMAIN weatherSeasonMap
         THEN arrIncludes(weatherSeasonMap[weather], garmentSeason)
         ELSE FALSE

\* weatherSeasonMap[weather]?.includes(garmentSeason) || false; the third
\* parameter (the optional temperature, <<>> or <<t>>) is not read
isSeasonAppropriate(garmentSeason, weather, temperature) ==
    IF garmentSeason = "all-season" THEN TRUE
    ELSE IF weather \in DOMAIN weatherSeasonMap
         THEN arrIncludes(weatherSeasonMap[weather], garmentSeason)
    ELSE IF inherited(weatherSeasonMap, weather)
         THEN TypeError(<<"weatherSeasonMap[weather]?.includes is not a function">>)
         ELSE FALSE

coldWeatherMaterials == <<Word("wool"), Word("fleece"), Word("down"), Word("synthetic")>>

\* garment.material?.toLowerCase() || ""
materialLower(garment) ==
    IF Has(garment, "material") THEN toLowerCase(garment.material) ELSE <<>>

\* isTemperatureAppropriate with the bounds 25 and 10 counted as hot and cold
isTemperatureAppropriate_inclusive(garment, temperature) ==
    LET material == materialLower(garment)
        category == garment.category
    IN  IF temperature >= 25
        THEN ~(\/ category = "outerwear"
               \/ strIncludes(material, Word("wool"))
               \/ strIncludes(material, Word("fleece")))
        ELSE IF temperature <= 10
        THEN \/ \E i \in DOMAIN coldWeatherMaterials :
                    strIncludes(material, coldWeatherMaterials[i])
             \/ category = "outerwear"
        ELSE TRUE

isTemperatureAppropriate(garment, temperature) ==
    LET material == materialLower(garment)
        category == garment.category
    IN  IF temperature > 25
        THEN ~(\/ category = "outerwear"
               \/ strIncludes(material, Word("wool"))
               \/ strIncludes(material, Word("fleece")))
        ELSE IF temperature < 10
        THEN \/ \E i \in DOMAIN coldWeatherMaterials :
                    strIncludes(material, coldWeatherMaterials[i])
             \/ category = "outerwear"
        ELSE TRUE

\* the filter callback throws for the garment: the season check comes first
\* and is the only call that can throw (lines 120-126)
passesContextThrows(garment, input) ==
    truthy(input, "weather") /\ isSeasonAppropriateThrows(garment.season, input.weather)

\* the filter callback for one garment (lines 118-138)
passesContext(garment, input) ==
    IF passesContextThrows(garment, input)
    THEN isSeasonAppropriate(garment.season, input.weather, <<>>)
    ELSE /\ truthy(input, "weather") =>
               isSeasonAppropriate(garment.season, input.weather,
                                   IF Has(input, "temperature")
                                   THEN <<input.temperature>> ELSE <<>>)
         /\ Has(input, "temperature") =>
               isTemperatureAppropriate(garment, input.temperature)

\* garments.filter throws: the callback throws for one of the garments
filterByContextThrows(garments, input) ==
    \E i \in DOMAIN garments : passesContextThrows(garments[i], input)

\* the garments that pass, or the error of the first garment for which the
\* callback throws
filterByContext(garments, input) ==
    IF filterByContextThrows(garments, input)
    THEN LET first == CHOOSE i \in DOMAIN garments :
                          /\ passesContextThrows(garments[i], input)
                          /\ \A j \in 1..(i - 1) : ~passesContextThrows(garments[j], input)
         IN  passesContext(garments[first], input)
    ELSE SelectSeq(garments, LAMBDA g : passesContext(g, input))

(***************************************************************************)
(* Scorer (lines 307-527).                                                 *)
(***************************************************************************)
styleKeywords ==
    <<Word("minimalist"), Word("bold"), Word("classic"), Word("trendy"),
      Word("avant-garde"), Word("casual")>>

\* extractStyles: the tags that contain a style keyword as a substring
extractStyles(tags) ==
    SelectSeq(tags, LAMBDA tag :
        \E k \in DOMAIN styleKeywords : strIncludes(tag, styleKeywords[k]))

\* scoreStyleCoherence returning 0 when no garment has a style tag
scoreStyleCoherence_noNeutralScore(garments) ==
    IF Len(garments) < 2 THEN 0
    ELSE
    LET allStyles == Flatten([i \in 1..Len(garments) |-> extractStyles(garments[i].tags)])
        styleMatches == {i \in DOMAIN allStyles :
                            \E j \in DOMAIN allStyles : j > i /\ allStyles[j] = allStyles[i]}
        hasMinimalist == \E i \in DOMAIN allStyles : strIncludes(allStyles[i], Word("minimalist"))
        hasBold == \E i \in DOMAIN allStyles : strIncludes(allStyles[i], Word("bold"))
        hasClassic == \E i \in DOMAIN allStyles : strIncludes(allStyles[i], Word("classic"))
    IN  IF Len(allStyles) = 0 THEN 0
        ELSE IF Cardinality(styleMatches) > 0 THEN 15
        ELSE IF (hasMinimalist /\ hasClassic) \/ (hasBold /\ hasClassic) THEN 10
        ELSE 5

scoreStyleCoherence(garments) ==
    IF Len(garments) < 2 THEN 0
    ELSE
    LET allStyles == Flatten([i \in 1..Len(garments) |-> extractStyles(garments[i].tags)])
        \* indices kept by filter((style, index) => allStyles.slice(index + 1).includes(style))
        styleMatches == {i \in DOMAIN allStyles :
                            \E j \in DOMAIN allStyles : j > i /\ allStyles[j] = allStyles[i]}
        hasMinimalist == \E i \in DOMAIN allStyles : strIncludes(allStyles[i], Word("minimalist"))
        hasBold == \E i \in DOMAIN allStyles : strIncludes(allStyles[i], Word("bold"))
        hasClassic == \E i \in DOMAIN allStyles : strIncludes(allStyles[i], Word("classic"))
    IN  IF Len(allStyles) = 0 THEN 5
        ELSE IF Cardinality(styleMatches) > 0 THEN 15
        ELSE IF (hasMinimalist /\ hasClassic) \/ (hasBold /\ hasClassic) THEN 10
        ELSE 5

moodToOccasion ==
    [casual      |-> <<Word("casual"), Word("weekend")>>,
     formal      |-> <<Word("formal"), Word("work"), Word("night")>>,
     adventurous |-> <<Word("weekend"), Word("casual")>>,
     cozy        |-> <<Word("casual"), Word("weekend")>>,
     energetic   |-> <<Word("casual"), Word("work")>>,
     minimalist  |-> <<Word("work"), Word("smart-casual"), Word("formal")>>,
     bold        |-> <<Word("night"), Word("weekend"), Word("casual")>>]

occasionTags ==
    <<Word("casual"), Word("formal"), Word("work"), Word("smart-casual"),
      Word("night"), Word("weekend")>>

\* scoreOccasionMatching throws: moodToOccasion[mood] is an inherited property
\* whose length is not 0, so the return of line 407 is not taken, and a
\* garment has an occasion tag, for which targetOccasions.includes is called
\* (lines 421-423)
scoreOccasionMatchingThrows(garments, mood) ==
    /\ inherited(moodToOccasion, mood)
    /\ ObjectPrototype[mood].length # <<0>>
    /\ \E i \in DOMAIN garments :
           \E k \in DOMAIN garments[i].tags : arrIncludes(occasionTags, garments[i].tags[k])

\* moodToOccasion[mood] || [] (line 406): the list of the mood, an inherited
\* property, or [] for any other value
scoreOccasionMatching(garments, mood) ==
    LET targetOccasions == IF mood \in DOMAIN moodToOccasion
                           THEN moodToOccasion[mood] ELSE <<>>
        garmentOccasions(g) == SelectSeq(g.tags, LAMBDA tag : arrIncludes(occasionTags, tag))
        matches(g) == Len(SelectSeq(garmentOccasions(g),
                                    LAMBDA occ : arrIncludes(targetOccasions, occ)))
        matchScore == SumSeq([i \in 1..Len(garments) |-> matches(garments[i]) * 2])
    IN  IF scoreOccasionMatchingThrows(garments, mood)
        THEN TypeError(<<"targetOccasions.includes is not a function">>)
        ELSE IF inherited(moodToOccasion, mood) THEN 0
        ELSE IF Len(targetOccasions) = 0 THEN 0 ELSE Min(matchScore, 12)

scoreVersatility(garments) ==
    LET points(g) == IF arrIncludes(g.tags, Word("versatile-high")) THEN 2
                     ELSE IF arrIncludes(g.tags, Word("versatile-medium")) THEN 1
                     ELSE 0
        versatilityScore == SumSeq([i \in 1..Len(garments) |-> points(garments[i])])
    IN  Min(versatilityScore, 8)

complementaryPairs ==
    <<<<Word("blue"), Word("orange")>>,
      <<Word("red"), Word("green")>>,
      <<Word("yellow"), Word("purple")>>>>

neutrals == <<Word("black"), Word("white"), Word("gray"), Word("beige"), Word("navy")>>

\* scoreColorHarmony with the complementary bonus granted once per pair of
\* pieces instead of once per pair of colors
scoreColorHarmony_perPiece(garments) ==
    IF Len(garments) < 2 THEN 0
    ELSE
    LET colors == [i \in 1..Len(garments) |-> toLowerCase(garments[i].primaryColor)]
        count(c) == Cardinality({i \in DOMAIN colors : colors[i] = c})
        afterPairs == SumSeq([k \in 1..Len(complementaryPairs) |->
                                 15 * count(complementaryPairs[k][1])
                                    * count(complementaryPairs[k][2])])
        afterSame == afterPairs +
                     (IF \A i \in DOMAIN colors : colors[i] = colors[1] THEN 10 ELSE 0)
        neutralCount == Len(SelectSeq(colors, LAMBDA c : arrIncludes(neutrals, c)))
        harmonyScore == afterSame +
                        (IF neutralCount >= Len(colors) - 1 THEN 8 ELSE 0)
    IN  Min(harmonyScore, 20)

scoreColorHarmony(garments) ==
    IF Len(garments) < 2 THEN 0
    ELSE
    LET colors == [i \in 1..Len(garments) |-> toLowerCase(garments[i].primaryColor)]
        \* one pass of the for loop over complementaryPairs
        pairBonus(p) == IF arrIncludes(colors, p[1]) /\ arrIncludes(colors, p[2])
                        THEN 15 ELSE 0
        afterPairs == SumSeq([k \in 1..Len(complementaryPairs) |->
                                 pairBonus(complementaryPairs[k])])
        afterSame == afterPairs +
                     (IF \A i \in DOMAIN colors : colors[i] = colors[1] THEN 10 ELSE 0)
        neutralCount == Len(SelectSeq(colors, LAMBDA c : arrIncludes(neutrals, c)))
        harmonyScore == afterSame +
                        (IF neutralCount >= Len(colors) - 1 THEN 8 ELSE 0)
    IN  Min(harmonyScore, 20)

moodTags ==
    [casual      |-> <<Word("cotton"), Word("denim"), Word("relaxed")>>,
     formal      |-> <<Word("silk"), Word("wool"), Word("structured")>>,
     adventurous |-> <<Word("bold"), Word("colorful"), Word("unique")>>,
     cozy        |-> <<Word("fleece"), Word("warm"), Word("soft")>>,
     energetic   |-> <<Word("bright"), Word("bold"), Word("dynamic")>>,
     minimalist  |-> <<Word("neutral"), Word("simple"), Word("clean")>>,
     bold        |-> <<Word("vibrant"), Word("statement"), Word("eye-catching")>>]

\* scoreMoodAlignment throws: moodTags[mood] is an inherited property, which
\* is truthy and has no method some, and there is a garment: its list
\* garmentTags is never empty, so that targetTags.some is called (lines
\* 503-513)
scoreMoodAlignmentThrows(garments, mood) ==
    inherited(moodTags, mood) /\ Len(garments) > 0

\* moodTags[mood] || [] (line 503): the list of the mood, an inherited
\* property, or [] for any other value
scoreMoodAlignment(garments, mood) ==
    LET targetTags == IF mood \in DOMAIN moodTags THEN moodTags[mood] ELSE <<>>
        garmentTags(g) == <<materialLower(g)>> \o
                          [i \in 1..Len(g.tags) |-> toLowerCase(g.tags[i])]
        matches(g) == Len(SelectSeq(garmentTags(g), LAMBDA t :
                          \E k \in DOMAIN targetTags : strIncludes(t, targetTags[k])))
        score == SumSeq([i \in 1..Len(garments) |-> matches(garments[i]) * 3])
    IN  IF scoreMoodAlignmentThrows(garments, mood)
        THEN TypeError(<<"targetTags.some is not a function">>)
        ELSE Min(score, 20)

\* scoreDiversity granting the bonus from four pieces on
scoreDiversity_fromFour(garments) == IF Len(garments) > 3 THEN 10 ELSE 5

scoreDiversity(garments) == IF Len(garments) >= 3 THEN 10 ELSE 5

\* scoreOutfit throws: one of its two sub-scorers that read a table throws
scoreOutfitThrows(garments, mood) ==
    scoreMoodAlignmentThrows(garments, mood) \/ scoreOccasionMatchingThrows(garments, mood)

\* scoreOutfit without the cap at 100
scoreOutfit_uncapped(garments, mood, allGarments) ==
    IF scoreMoodAlignmentThrows(garments, mood)
    THEN scoreMoodAlignment(garments, mood)
    ELSE IF scoreOccasionMatchingThrows(garments, mood)
    THEN scoreOccasionMatching(garments, mood)
    ELSE 50 + scoreColorHarmony(garments)
            + scoreMoodAlignment(garments, mood)
            + scoreStyleCoherence(garments)
            + scoreOccasionMatching(garments, mood)
            + scoreVersatility(garments)
            + scoreDiversity(garments)

\* the third parameter (the whole filtered wardrobe) is not read; the mood
\* sub-scorer is called before the occasion sub-scorer (lines 320, 328)
scoreOutfit(garments, mood, allGarments) ==
    LET score == 50
                 + scoreColorHarmony(garments)
                 + scoreMoodAlignment(garments, mood)
                 + scoreStyleCoherence(garments)
                 + scoreOccasionMatching(garments, mood)
                 + scoreVersatility(garments)
                 + scoreDiversity(garments)
    IN  IF scoreMoodAlignmentThrows(garments, mood)
        THEN scoreMoodAlignment(garments, mood)
        ELSE IF scoreOccasionMatchingThrows(garments, mood)
        THEN scoreOccasionMatching(garments, mood)
        ELSE Min(score, 100)


(***************************************************************************)
(* Reasons and explanation (lines 532-638). A piece of text built by a     *)
(* template literal is the sequence of its fragments.                      *)
(***************************************************************************)
reasonStyleTags ==
    <<Word("minimalist"), Word("bold"), Word("classic"), Word("trendy"),
      Word("avant-garde")>>

RECURSIVE Unique(_)
\* [...new Set(arr)]: first occurrences, in order
Unique(arr) ==
    IF arr = <<>> THEN <<>>
    ELSE LET front == Unique(SubSeq(arr, 1, Len(arr) - 1))
             last == arr[Len(arr)]
         IN  IF arrIncludes(front, last) THEN front ELSE Append(front, last)

moodDescriptions ==
    [casual      |-> <<"Perfect for a relaxed day">>,
     formal      |-> <<"Polished and professional">>,
     adventurous |-> <<"Ready for an adventure">>,
     cozy        |-> <<"Comfortable and warm">>,
     energetic   |-> <<"Energizing and uplifting">>,
     minimalist  |-> <<"Clean and simple">>,
     bold        |-> <<"Statement-making outfit">>]

\* generateReasons pushing the mood description first, before the piece and
\* color notes
generateReasons_moodFirst(garments, mood) ==
    LET pieceNote == IF Len(garments) >= 3
                     THEN << <<"Well-balanced outfit with ">> \o
                             NumberToString(Len(garments)) \o <<" pieces">> >>
                     ELSE <<>>
        hasNeutral == \E i \in DOMAIN garments :
                          arrIncludes(neutrals, toLowerCase(garments[i].primaryColor))
        neutralNote == IF hasNeutral THEN << <<"Neutral base for easy coordination">> >>
                       ELSE <<>>
        moodNote == IF mood \in DOMAIN moodDescriptions
                    THEN moodDescriptions[mood] ELSE <<"Well-coordinated look">>
    IN  <<moodNote>> \o pieceNote \o neutralNote

\* the last reason is moodDescriptions[mood] || "Well-coordinated look" (line
\* 606): the description of the mood, an inherited property (all of them
\* are truthy), or the generic text for any other value
generateReasons(garments, mood) ==
    LET pieceNote == IF Len(garments) >= 3
                     THEN << <<"Well-balanced outfit with ">> \o
                             NumberToString(Len(garments)) \o <<" pieces">> >>
                     ELSE <<>>
        hasNeutral == \E i \in DOMAIN garments :
                          arrIncludes(neutrals, toLowerCase(garments[i].primaryColor))
        neutralNote == IF hasNeutral THEN << <<"Neutral base for easy coordination">> >>
                       ELSE <<>>
        allStyles == Flatten([i \in 1..Len(garments) |->
                        SelectSeq(garments[i].tags,
                                  LAMBDA t : arrIncludes(reasonStyleTags, t))])
        uniqueStyles == Unique(allStyles)
        styleNote == IF Len(uniqueStyles) = 1
                     THEN << <<"Cohesive ">> \o uniqueStyles[1] \o <<" aesthetic">> >>
                     ELSE IF /\ arrIncludes(uniqueStyles, Word("classic"))
                             /\ \/ arrIncludes(uniqueStyles, Word("bold"))
                                \/ arrIncludes(uniqueStyles, Word("minimalist"))
                     THEN << <<"Classic foundation with modern twist">> >>
                     ELSE <<>>
        allOccasions == Flatten([i \in 1..Len(garments) |->
                           SelectSeq(garments[i].tags,
                                     LAMBDA t : arrIncludes(occasionTags, t))])
        commonOccasions == Unique(allOccasions)
        occasionNote == IF arrIncludes(commonOccasions, Word("formal"))
                        THEN << <<"Polished and put-together">> >>
                        ELSE IF arrIncludes(commonOccasions, Word("casual"))
                        THEN << <<"Comfortable and approachable">> >>
                        ELSE <<>>
        versatilePieces == Len(SelectSeq(garments,
                               LAMBDA g : arrIncludes(g.tags, Word("versatile-high"))))
        versatileNote == IF versatilePieces >= 2
                         THEN << <<"Mix-and-match friendly pieces">> >>
                         ELSE <<>>
        moodNote == IF mood \in DOMAIN moodDescriptions THEN moodDescriptions[mood]
                    ELSE IF inherited(moodDescriptions, mood)
                    THEN ObjectPrototype[mood].value
                    ELSE <<"Well-coordinated look">>
    IN  pieceNote \o neutralNote \o styleNote \o occasionNote \o versatileNote
        \o <<moodNote>>

RECURSIVE Join(_, _)
\* Array.prototype.join: the fragments of the parts with sep between the parts
Join(parts, sep) ==
    IF parts = <<>> THEN <<>>
    ELSE IF Len(parts) = 1 THEN parts[1]
    ELSE parts[1] \o <<sep>> \o Join(Tail(parts), sep)

\* generateExplanation testing the temperature for truthiness, as it tests
\* the weather and the mood
generateExplanation_truthyTemperature(input) ==
    LET weatherPart == IF truthy(input, "weather")
                       THEN << <<"Recommended for ", input.weather, " weather">> >>
                       ELSE <<>>
        moodPart == IF truthy(input, "mood")
                    THEN << <<"with a ", input.mood, " vibe">> >>
                    ELSE <<>>
        temperaturePart == IF Has(input, "temperature") /\ input.temperature # 0
                           THEN << <<"(">> \o NumberToString(input.temperature)
                                   \o <<"(U+00B0)C)">> >>
                           ELSE <<>>
        parts == weatherPart \o moodPart \o temperaturePart
    IN  IF Len(parts) = 0
        THEN <<"Outfit recommendations based on your wardrobe.">>
        ELSE <<"Outfit recommendations ">> \o Join(parts, " ")
             \o <<". Mix and match pieces or shuffle for more options.">>

generateExplanation(input) ==
    LET weatherPart == IF truthy(input, "weather")
                       THEN << <<"Recommended for ", input.weather, " weather">> >>
                       ELSE <<>>
        moodPart == IF truthy(input, "mood")
                    THEN << <<"with a ", input.mood, " vibe">> >>
                    ELSE <<>>
        temperaturePart == IF Has(input, "temperature")
                           THEN << <<"(">> \o NumberToString(input.temperature)
                                   \o <<"(U+00B0)C)">> >>
                           ELSE <<>>
        parts == weatherPart \o moodPart \o temperaturePart
    IN  IF Len(parts) = 0
        THEN <<"Outfit recommendations based on your wardrobe.">>
        ELSE <<"Outfit recommendations ">> \o Join(parts, " ")
             \o <<". Mix and match pieces or shuffle for more options.">>

(***************************************************************************)
(* Candidate generator (lines 210-302).                                    *)
(***************************************************************************)
\* the Map built by groupByCategory: category -> garments in input order
groupByCategory(garments) ==
    [c \in {garments[i].category : i \in DOMAIN garments} |->
        SelectSeq(garments, LAMBDA g : g.category = c)]

\* categories.get(c) || []
categoryOrEmpty(categories, c) ==
    IF c \in DOMAIN categories THEN categories[c] ELSE <<>>

\* shoeCandidate pushing the id of the shoe also for the placeholder
shoeCandidate_placeholderId(top, bottom, shoe, mood, garments) ==
    LET isBarefoot == shoe.id = "barefoot"
        outfitPieces == IF isBarefoot THEN <<top, bottom>> ELSE <<top, bottom, shoe>>
        pushed(score) == IF scoreOutfitThrows(outfitPieces, mood) THEN score
                         ELSE [garmentIds |-> <<top.id, bottom.id, shoe.id>>,
                               score      |-> score,
                               reasons    |-> generateReasons(outfitPieces, mood)]
    IN  pushed(scoreOutfit(outfitPieces, mood, garments))

\* body of the loop over shoesToTry (lines 235-253)
shoeCandidate(top, bottom, shoe, mood, garments) ==
    LET isBarefoot == shoe.id = "barefoot"
        garmentIds == IF isBarefoot THEN <<top.id, bottom.id>>
                      ELSE <<top.id, bottom.id, shoe.id>>
        outfitPieces == IF isBarefoot THEN <<top, bottom>> ELSE <<top, bottom, shoe>>
        \* candidates.push({...}) of line 241, not reached when the score throws
        pushed(score) == IF scoreOutfitThrows(outfitPieces, mood) THEN score
                         ELSE [garmentIds |-> garmentIds,
                               score      |-> score,
                               reasons    |-> generateReasons(outfitPieces, mood)]
    IN  pushed(scoreOutfit(outfitPieces, mood, garments))

\* body of the loop over accessories.slice(0, 2) (lines 257-279)
accessoryCandidate(top, bottom, shoes, accessory, mood, garments) ==
    LET garmentIds == <<top.id, bottom.id>>
                      \o (IF Len(shoes) > 0 THEN <<shoes[1].id>> ELSE <<>>)
                      \o <<accessory.id>>
        pieces == <<top, bottom>> \o SubSeq(shoes, 1, Min(1, Len(shoes)))
                  \o <<accessory>>
        \* candidates.push({...}) of line 267, not reached when the score throws
        pushed(score) == IF scoreOutfitThrows(pieces, mood) THEN score
                         ELSE [garmentIds |-> garmentIds,
                               score      |-> score,
                               reasons    |-> generateReasons(pieces, mood)]
    IN  pushed(scoreOutfit(pieces, mood, garments))

\* pairCandidates with a candidate for every accessory
pairCandidates_allAccessories(top, bottom, shoes, accessories, mood, garments) ==
    LET shoesToTry == IF Len(shoes) > 0 THEN shoes
                      ELSE <<[id |-> "barefoot", category |-> "shoes"]>>
    IN  [k \in 1..Len(shoesToTry) |->
            shoeCandidate(top, bottom, shoesToTry[k], mood, garments)]
        \o [k \in 1..Len(accessories) |->
            accessoryCandidate(top, bottom, shoes, accessories[k], mood, garments)]

\* body of the loop over bottoms, for one (top, bottom) pair (lines 231-279)
pairCandidates(top, bottom, shoes, accessories, mood, garments) ==
    LET shoesToTry == IF Len(shoes) > 0 THEN shoes
                      ELSE <<[id |-> "barefoot", category |-> "shoes"]>>
        firstTwo == SubSeq(accessories, 1, Min(2, Len(accessories)))
    IN  [k \in 1..Len(shoesToTry) |->
            shoeCandidate(top, bottom, shoesToTry[k], mood, garments)]
        \o [k \in 1..Len(firstTwo) |->
            accessoryCandidate(top, bottom, shoes, firstTwo[k], mood, garments)]

\* the candidates of all (top, bottom) pairs in loop order, each a candidate
\* or the error its scoring throws
loopCandidates(garments, mood) ==
    LET categories == groupByCategory(garments)
        tops == categoryOrEmpty(categories, "tops")
        bottoms == categoryOrEmpty(categories, "bottoms")
        shoes == categoryOrEmpty(categories, "shoes")
        accessories == categoryOrEmpty(categories, "accessories")
    IN  IF Len(tops) = 0 \/ Len(bottoms) = 0 THEN <<>>
        ELSE Flatten([i \in 1..Len(tops) |->
                Flatten([j \in 1..Len(bottoms) |->
                    pairCandidates(tops[i], bottoms[j], shoes, accessories,
                                   mood, garments)])])

\* generateCandidates throws: scoreOutfit throws for a candidate (lines 245,
\* 271), which it does only for a mood that names an inherited property
generateCandidatesThrows(garments, mood) ==
    /\ mood \in DOMAIN ObjectPrototype
    /\ \E all \in {loopCandidates(garments, mood)} :
           \E k \in DOMAIN all : isError(all[k])

\* the candidates, or the error of the first candidate whose scoring throws
generateCandidates(garments, mood) ==
    LET ended(all) ==
            IF mood \in DOMAIN ObjectPrototype /\ \E k \in DOMAIN all : isError(all[k])
            THEN all[CHOOSE k \in DOMAIN all :
                         isError(all[k]) /\ \A j \in 1..(k - 1) : ~isError(all[j])]
            ELSE all
    IN  ended(loopCandidates(garments, mood))

(***************************************************************************)
(* Ranker / selector (lines 73-80).                                        *)
(***************************************************************************)
MIN_SCORE_THRESHOLD == 60

\* the limit used when the request gives none (input.limitCount || 6)
DEFAULT_LIMIT == 6

\* the comparator (a, b) => b.score - a.score
compareCandidates(a, b) == b.score - a.score

RECURSIVE insertSorted_unstable(_, _)
\* insertSorted moving x left also past the elements the comparator ties with it
insertSorted_unstable(sorted, x) ==
    IF sorted = <<>> \/ compareCandidates(sorted[Len(sorted)], x) < 0
    THEN Append(sorted, x)
    ELSE Append(insertSorted_unstable(SubSeq(sorted, 1, Len(sorted) - 1), x),
                sorted[Len(sorted)])

RECURSIVE insertSorted(_, _)
\* one insertion of the stable sort: x moves left past every element that the
\* comparator orders strictly after it
insertSorted(sorted, x) ==
    IF sorted = <<>> \/ compareCandidates(sorted[Len(sorted)], x) <= 0
    THEN Append(sorted, x)
    ELSE Append(insertSorted(SubSeq(sorted, 1, Len(sorted) - 1), x),
                sorted[Len(sorted)])

RECURSIVE sortCandidates(_)
\* Array.prototype.sort with compareCandidates (stable since ES2019)
sortCandidates(cands) ==
    IF Len(cands) <= 1 THEN cands
    ELSE insertSorted(sortCandidates(SubSeq(cands, 1, Len(cands) - 1)),
                      cands[Len(cands)])

\* .filter((candidate) => candidate.score >= MIN_SCORE_THRESHOLD)
thresholdFilter(cands) ==
    SelectSeq(cands, LAMBDA c : c.score >= MIN_SCORE_THRESHOLD)

\* input.limitCount || 6: 0 is falsy
effectiveLimit(input) ==
    IF Has(input, "limitCount") /\ input.limitCount # 0
    THEN input.limitCount ELSE DEFAULT_LIMIT

\* Array.prototype.slice(0, n) for an integer n
sliceTo(arr, n) ==
    IF n >= 0 THEN SubSeq(arr, 1, Min(n, Len(arr)))
    ELSE SubSeq(arr, 1, Len(arr) + n)

rankCandidates(cands, input) ==
    sliceTo(thresholdFilter(sortCandidates(cands)), effectiveLimit(input))


(***************************************************************************)
(* Requests: the wardrobes and contexts the engine is called with.         *)
(***************************************************************************)
Catalogue ==
    <<[id |-> "t1", category |-> "tops", primaryColor |-> Word("Blue"),
       material |-> Word("wool"), season |-> "summer",
       tags |-> <<Word("formal"), Word("classic"), Word("versatile-high"),
                  Word("structured")>>],
      [id |-> "a1", category |-> "accessories", primaryColor |-> Word("green"),
       material |-> Word("silk"), season |-> "all-season",
       tags |-> <<Word("formal"), Word("classic"), Word("versatile-high"),
                  Word("statement")>>],
      [id |-> "b1", category |-> "bottoms", primaryColor |-> Word("orange"),
       material |-> Word("Wool-Blend"), season |-> "fall",
       tags |-> <<Word("formal"), Word("work"), Word("classic"),
                  Word("versatile-high")>>],
      [id |-> "s1", category |-> "shoes", primaryColor |-> Word("red"),
       material |-> Word("leather"), season |-> "winter",
       tags |-> <<Word("formal"), Word("night"), Word("bold"),
                  Word("versatile-high")>>],
      [id |-> "t2", category |-> "tops", primaryColor |-> Word("yellow"),
       season |-> "all-season", tags |-> <<>>],
      [id |-> "b2", category |-> "bottoms", primaryColor |-> Word("green"),
       material |-> Word("linen"), season |-> "spring", tags |-> <<>>],
      [id |-> "barefoot", category |-> "shoes", primaryColor |-> Word("white"),
       material |-> Word("canvas"), season |-> "all-season",
       tags |-> <<Word("casual"), Word("comfortable")>>],
      [id |-> "a2", category |-> "accessories", primaryColor |-> Word("gold"),
       material |-> Word("metal"), season |-> "all-season",
       tags |-> <<Word("statement"), Word("(U+0130)pek")>>],
      [id |-> "o1", category |-> "outerwear", primaryColor |-> Word("navy"),
       material |-> Word("fleece"), season |-> "winter",
       tags |-> <<Word("warm"), Word("(U+039F)(U+0394)(U+039F)(U+03A3)")>>]>>

RECURSIVE Pick(_, _)
\* the garments of the catalogue at the positions of S, in catalogue order
Pick(S, n) ==
    IF n = 0 THEN <<>>
    ELSE IF n \in S THEN Append(Pick(S, n - 1), Catalogue[n])
    ELSE Pick(S, n - 1)

Wardrobes ==
    {Pick(S, Len(Catalogue)) :
        S \in {T \in SUBSET DOMAIN Catalogue : Cardinality(T) <= MaxWardrobe}}

Moods == {"casual", "formal", "adventurous", "cozy", "energetic", "minimalist", "bold"}

\* mood texts outside the Mood type that name an inherited property of the
\* tables: a function of length 1, a function of length 0, an object
InheritedMoods == {"constructor", "toString", "__proto__"}

Weathers == {"sunny", "cloudy", "rainy", "snowy", "windy", "hot", "cold"}

\* the weather values a request can carry: "foggy" is the label the home page
\* derives from WMO codes 45 and 48, "constructor" is a text that names an
\* inherited property of the tables, "" is the empty text, which the route
\* passes on as it does every other text
RequestWeathers == Weathers \cup {"foggy", "constructor", ""}

\* around the two thresholds of isTemperatureAppropriate
RequestTemperatures == {0, 10, 25, 26}

RequestLimits == 0..MaxLimit

\* the records base and base with the optional field set to a value
WithOptional(base, field, values) ==
    {base} \cup {[x \in DOMAIN base \cup {field} |->
                     IF x = field THEN v ELSE base[x]] : v \in values}

\* the contexts whose optional fields are absent or drawn from the given sets
ContextsOver(moods, weathers, temperatures, limits) ==
    UNION {UNION {UNION {WithOptional(c3, "limitCount", limits) :
                           c3 \in WithOptional(c2, "temperature", temperatures)} :
                    c2 \in WithOptional(c1, "weather", weathers)} :
             c1 \in WithOptional([userId |-> "user1"], "mood", moods)}

\* every mood with every limit, every weather with every temperature, the
\* combinations of one value of each field, and the contexts with an empty
\* text as mood
Contexts ==
    ContextsOver(Moods, {}, {}, RequestLimits)
    \cup ContextsOver({}, RequestWeathers, RequestTemperatures, {})
    \cup ContextsOver({"cozy"}, {"cold"}, {0}, {1})
    \cup ContextsOver(InheritedMoods, {}, {}, {})
    \cup ContextsOver({""}, {"", "cold"}, {0}, {})

(***************************************************************************)
(* generateOutfits (lines 42-109) as the state machine of one request.     *)
(***************************************************************************)
VARIABLES
    pc,                \* stage of the request
    garments,          \* argument garments
    input,             \* argument input
    filteredGarments,  \* const filteredGarments
    candidates,        \* const candidates
    rankedCandidates,  \* const rankedCandidates
    result,            \* the value returned or the error thrown: <<>> until the call ends
    trace,             \* the stages the call went through
    calls,             \* number of calls issued with this request
    previous,          \* context of an earlier call -> what its latest call returned or threw
    pieces,            \* argument garments of the scorer called on its own
    scoreMood,         \* argument mood of the scorer called on its own
    subScores,         \* the values the scorer's functions returned, or the error thrown: <<>> until scored
    pieceReasons,      \* the reasons generateReasons returned for the pieces: <<>> until explained
    body,              \* the parsed JSON body of the HTTP request: <<>> if none
    response,          \* the HTTP response: <<>> until the handler responds
    hookOutfits,       \* state outfits of useOutfitRecommendations
    loading,           \* state loading of the hook
    error,             \* state error of the hook: <<>> for null, else <<message>>
    explanation,       \* state explanation of the hook: <<>> for ""
    phase,             \* per generate call started: "fetching", "parsing" or "settled"
    outcome,           \* per generate call started: <<>> until settled, then how it settled
    resetSinceStart    \* reset was called after the last generate call started

engineVars == <<pc, garments, input, filteredGarments, candidates, rankedCandidates,
                result, trace, calls, previous>>

scoreVars == <<pieces, scoreMood, subScores, pieceReasons>>

routeVars == <<body, response>>

hookVars == <<hookOutfits, loading, error, explanation, phase, outcome, resetSinceStart>>

vars == <<engineVars, scoreVars, routeVars, hookVars>>

\* the hook after its first render (lines 34-37), no generate call started
HookIdle ==
    /\ hookOutfits = <<>>
    /\ loading = FALSE
    /\ error = <<>>
    /\ explanation = <<>>
    /\ phase = <<>>
    /\ outcome = <<>>
    /\ resetSinceStart = FALSE

Terminal == {"Result", "EmptyWardrobe", "NoEligibleGarments", "NoQualifyingOutfits"}

\* the call is over: it returned a value or threw
Ended == Terminal \cup {"Thrown"}

emptyWardrobeMessage == <<"No garments found in wardrobe. Please add items first.">>

noSuitableMessage ==
    <<"No suitable outfits found for the current weather and mood combination.">>

noHighQualityMessage ==
    <<"No high-quality outfit combinations found. Try adjusting your mood, weather, or add more items to your closet.">>

emptyResult(message) ==
    [outfits |-> <<>>, explanation |-> message, totalGenerated |-> 0]

\* input.mood || "casual"
moodOrCasual(inp) == IF truthy(inp, "mood") THEN inp.mood ELSE "casual"

\* the separator " \u2022 " of candidate.reasons.join, in ASCII
reasonSeparator == " (U+2022) "

\* an optional field copied into the outfit: <<>> when undefined
optional(inp, field) == IF Has(inp, field) THEN <<inp[field]>> ELSE <<>>

\* toOutfit reporting the score as the margin above the threshold
toOutfit_margin(candidate, index, inp, now, date) ==
    [id             |-> <<"outfit-", now, "-", index>>,
     userId         |-> inp.userId,
     garmentIds     |-> candidate.garmentIds,
     contextWeather |-> optional(inp, "weather"),
     contextMood    |-> optional(inp, "mood"),
     explanation    |-> Join(candidate.reasons, reasonSeparator),
     score          |-> candidate.score - MIN_SCORE_THRESHOLD,
     createdAt      |-> date]

\* the callback of rankedCandidates.map (lines 93-102): now is what Date.now()
\* returns for the id (line 94) and date what new Date() reads for createdAt
\* (line 101)
toOutfit(candidate, index, inp, now, date) ==
    [id             |-> <<"outfit-", now, "-", index>>,
     userId         |-> inp.userId,
     garmentIds     |-> candidate.garmentIds,
     contextWeather |-> optional(inp, "weather"),
     contextMood    |-> optional(inp, "mood"),
     explanation    |-> Join(candidate.reasons, reasonSeparator),
     score          |-> candidate.score,
     createdAt      |-> date]

\* the readings of the clock during one call that takes n of them. The clock
\* is read anew each time and may have advanced in between; it does not go
\* back while a call runs. A reading is the number of ticks before it
ClockReadings(n) ==
    {[i \in 1..n |-> Cardinality({j \in 1..MaxClock : ticks[j] < i})] :
        ticks \in [1..MaxClock -> 0..n]}

\* a clock that reads t at each of n readings
StoppedClock(t, n) == [i \in 1..n |-> t]

\* lines 92-108; index is 0-based as in the code. clock is the sequence of
\* the readings in the order they are taken: two for each outfit, Date.now()
\* and then new Date()
buildResult(ranked, inp, clock) ==
    LET outfits == [i \in 1..Len(ranked) |->
                       toOutfit(ranked[i], i - 1, inp, clock[2 * i - 1], clock[2 * i])]
    IN  [outfits |-> outfits,
         explanation |-> generateExplanation(inp),
         totalGenerated |-> Len(outfits)]

\* the value generateOutfits returns for the arguments, or the error it
\* throws, when the clock gives the readings of clock, of which there are at
\* least two for each outfit (lines 42-109 as one function)
generateOutfits(gs, inp, clock) ==
    IF Len(gs) = 0 THEN emptyResult(emptyWardrobeMessage)
    ELSE IF filterByContextThrows(gs, inp) THEN filterByContext(gs, inp)
    ELSE LET filtered == filterByContext(gs, inp)
         IN  IF Len(filtered) = 0 THEN emptyResult(noSuitableMessage)
             ELSE IF generateCandidatesThrows(filtered, moodOrCasual(inp))
             THEN generateCandidates(filtered, moodOrCasual(inp))
             ELSE LET ranked == rankCandidates(
                                    generateCandidates(filtered, moodOrCasual(inp)), inp)
                  IN  IF Len(ranked) = 0 THEN emptyResult(noHighQualityMessage)
                      ELSE buildResult(ranked, inp, clock)

\* a request with a wardrobe of the catalogue and one of the given contexts
InitOver(contexts) ==
    /\ pc = "Received"
    /\ garments \in Wardrobes
    /\ input \in contexts
    /\ filteredGarments = <<>>
    /\ candidates = <<>>
    /\ rankedCandidates = <<>>
    /\ result = <<>>
    /\ trace = <<"Received">>
    /\ calls = 1
    /\ previous = <<>>
    /\ pieces = <<>>
    /\ scoreMood = "casual"
    /\ subScores = <<>>
    /\ pieceReasons = <<>>
    /\ HookIdle
    /\ body = <<>>
    /\ response = <<>>

Init == InitOver(Contexts)

\* FilterStage without the validation of lines 47-53
FilterStage_noValidation ==
    /\ pc = "Received"
    /\ IF filterByContextThrows(garments, input)
       THEN /\ result' = <<filterByContext(garments, input)>>
            /\ pc' = "Thrown"
            /\ UNCHANGED filteredGarments
       ELSE /\ filteredGarments' = filterByContext(garments, input)
            /\ pc' = "Filtered"
            /\ UNCHANGED result
    /\ trace' = Append(trace, pc')
    /\ UNCHANGED <<garments, input, candidates, rankedCandidates, calls, previous>>
    /\ UNCHANGED <<scoreVars, routeVars, hookVars>>

\* lines 46-56: the empty-wardrobe return, else the context filter, which
\* returns the garments that pass or throws
FilterStage ==
    /\ pc = "Received"
    /\ IF Len(garments) = 0
       THEN /\ result' = <<emptyResult(emptyWardrobeMessage)>>
            /\ pc' = "EmptyWardrobe"
            /\ UNCHANGED filteredGarments
       ELSE IF filterByContextThrows(garments, input)
       THEN /\ result' = <<filterByContext(garments, input)>>
            /\ pc' = "Thrown"
            /\ UNCHANGED filteredGarments
       ELSE /\ filteredGarments' = filterByContext(garments, input)
            /\ pc' = "Filtered"
            /\ UNCHANGED result
    /\ trace' = Append(trace, pc')
    /\ UNCHANGED <<garments, input, candidates, rankedCandidates, calls, previous>>
    /\ UNCHANGED <<scoreVars, routeVars, hookVars>>

\* GenerateStage without the return of lines 58-65
GenerateStage_noShortCircuit ==
    /\ pc = "Filtered"
    /\ \E generated \in {generateCandidates(filteredGarments, moodOrCasual(input))} :
          IF generateCandidatesThrows(filteredGarments, moodOrCasual(input))
          THEN /\ result' = <<generated>>
               /\ pc' = "Thrown"
               /\ UNCHANGED candidates
          ELSE /\ candidates' = generated
               /\ pc' = "Generated"
               /\ UNCHANGED result
    /\ trace' = Append(trace, pc')
    /\ UNCHANGED <<garments, input, filteredGarments, rankedCandidates, calls, previous>>
    /\ UNCHANGED <<scoreVars, routeVars, hookVars>>

\* lines 58-71: the nothing-eligible return, else candidate generation,
\* which returns the candidates or throws
GenerateStage ==
    /\ pc = "Filtered"
    /\ IF Len(filteredGarments) = 0
       THEN /\ result' = <<emptyResult(noSuitableMessage)>>
            /\ pc' = "NoEligibleGarments"
            /\ UNCHANGED candidates
       ELSE \E generated \in {generateCandidates(filteredGarments, moodOrCasual(input))} :
                IF generateCandidatesThrows(filteredGarments, moodOrCasual(input))
                THEN /\ result' = <<generated>>
                     /\ pc' = "Thrown"
                     /\ UNCHANGED candidates
                ELSE /\ candidates' = generated
                     /\ pc' = "Generated"
                     /\ UNCHANGED result
    /\ trace' = Append(trace, pc')
    /\ UNCHANGED <<garments, input, filteredGarments, rankedCandidates, calls, previous>>
    /\ UNCHANGED <<scoreVars, routeVars, hookVars>>

\* RankStage with a sort that leaves candidates of equal score in an order
\* the runtime chooses (a sort that is not stable, or a shuffle among
\* equals): in the order they were generated, or in the reverse order
RankStage_tiesInAnyOrder ==
    /\ pc = "Generated"
    /\ \E cands \in {candidates,
                      [k \in DOMAIN candidates |->
                          candidates[Len(candidates) + 1 - k]]} :
          /\ rankedCandidates' = rankCandidates(cands, input)
          /\ candidates' = sortCandidates(cands)
    /\ pc' = "Ranked"
    /\ trace' = Append(trace, pc')
    /\ UNCHANGED <<garments, input, filteredGarments, result, calls, previous>>
    /\ UNCHANGED <<scoreVars, routeVars, hookVars>>

\* lines 73-80: sort, threshold, limit; Array.prototype.sort sorts the
\* candidates array in place
RankStage ==
    /\ pc = "Generated"
    /\ rankedCandidates' = rankCandidates(candidates, input)
    /\ candidates' = sortCandidates(candidates)
    /\ pc' = "Ranked"
    /\ trace' = Append(trace, pc')
    /\ UNCHANGED <<garments, input, filteredGarments, result, calls, previous>>
    /\ UNCHANGED <<scoreVars, routeVars, hookVars>>

\* ReturnStage reporting the number of candidates as totalGenerated
ReturnStage_totalIsCandidates ==
    /\ pc = "Ranked"
    /\ IF Len(rankedCandidates) = 0
       THEN /\ result' = <<emptyResult(noHighQualityMessage)>>
            /\ pc' = "NoQualifyingOutfits"
       ELSE /\ \E clock \in ClockReadings(2 * Len(rankedCandidates)) :
                   result' = <<[buildResult(rankedCandidates, input, clock)
                                  EXCEPT !.totalGenerated = Len(candidates)]>>
            /\ pc' = "Result"
    /\ trace' = Append(trace, pc')
    /\ UNCHANGED <<garments, input, filteredGarments, candidates, rankedCandidates,
                   calls, previous>>
    /\ UNCHANGED <<scoreVars, routeVars, hookVars>>

\* ReturnStage starting the request over when no candidate qualifies
ReturnStage_retry ==
    /\ pc = "Ranked"
    /\ IF Len(rankedCandidates) = 0
       THEN /\ pc' = "Received"
            /\ UNCHANGED result
       ELSE /\ \E clock \in ClockReadings(2 * Len(rankedCandidates)) :
                   result' = <<buildResult(rankedCandidates, input, clock)>>
            /\ pc' = "Result"
    /\ trace' = Append(trace, pc')
    /\ UNCHANGED <<garments, input, filteredGarments, candidates, rankedCandidates,
                   calls, previous>>
    /\ UNCHANGED <<scoreVars, routeVars, hookVars>>

\* lines 82-109: the nothing-qualifies return, else the outfits, each
\* stamped with two readings of the clock
ReturnStage ==
    /\ pc = "Ranked"
    /\ IF Len(rankedCandidates) = 0
       THEN /\ result' = <<emptyResult(noHighQualityMessage)>>
            /\ pc' = "NoQualifyingOutfits"
       ELSE /\ \E clock \in ClockReadings(2 * Len(rankedCandidates)) :
                   result' = <<buildResult(rankedCandidates, input, clock)>>
            /\ pc' = "Result"
    /\ trace' = Append(trace, pc')
    /\ UNCHANGED <<garments, input, filteredGarments, candidates, rankedCandidates,
                   calls, previous>>
    /\ UNCHANGED <<scoreVars, routeVars, hookVars>>

\* the contexts of the calls that follow each other: two moods, one with a
\* weather, each with a limit of two outfits, and a mood for which the
\* scorer throws
RepeatContexts ==
    {[userId |-> "user1", mood |-> "formal", limitCount |-> 2],
     [userId |-> "user1", mood |-> "cozy", weather |-> "cold", limitCount |-> 2],
     [userId |-> "user1", mood |-> "constructor"]}

\* generateOutfits is entered again after a call that returned or threw
\* (lines 42-45). It is a static method of a class without fields: a call
\* starts from its arguments alone, and its constants (filteredGarments,
\* candidates, rankedCandidates) are new. The caller passes the same garment
\* list and the context of an earlier call or another one, and holds what
\* the calls so far returned or threw
CallAgain ==
    /\ pc \in Ended
    /\ calls < MaxCalls
    /\ calls' = calls + 1
    /\ previous' = [c \in DOMAIN previous \cup {input} |->
                       IF c = input THEN result[1] ELSE previous[c]]
    /\ input' \in RepeatContexts
    /\ pc' = "Received"
    /\ trace' = <<"Received">>
    /\ filteredGarments' = <<>>
    /\ candidates' = <<>>
    /\ rankedCandidates' = <<>>
    /\ result' = <<>>
    /\ UNCHANGED garments
    /\ UNCHANGED <<scoreVars, routeVars, hookVars>>

Next == FilterStage \/ GenerateStage \/ RankStage \/ ReturnStage

Spec == Init /\ [][Next]_vars

Stages == {"Received", "Filtered", "Generated", "Ranked"} \cup Ended

\* control leaves a stage in which the call is not over: the step every
\* stage action takes, without the values it computes
Advance == pc \notin Ended /\ pc' \in Stages \ {pc}

\* the call runs to completion: generateOutfits awaits nothing, so a call
\* that has not returned takes its next step. Every step of Next changes pc
\* and Next is enabled exactly in the stages that are not terminal, so this
\* is the condition WF_vars(Next)
SpecLive == Init /\ [][Next]_vars /\ WF_pc(Advance)

InitRepeat == InitOver(RepeatContexts)

\* up to MaxCalls calls on the same garment list, one after the other
NextRepeat == Next \/ CallAgain

SpecRepeat == InitRepeat /\ [][NextRepeat]_vars


(***************************************************************************)
(* The context filter on its own: requests with one garment of every       *)
(* category, material and season, alone or with a pair of jeans.           *)
(***************************************************************************)
FilterCategories == {"tops", "bottoms", "outerwear"}

\* <<>> is a garment without material
FilterMaterials ==
    {<<>>, <<Word("Merino Wool")>>, <<Word("fleece")>>, <<Word("Down")>>,
     <<Word("synthetic")>>, <<Word("cotton")>>, <<Word("linen")>>}

FilterSeasons == {"spring", "summer", "fall", "winter", "all-season"}

\* below, at and above the two thresholds of isTemperatureAppropriate
FilterTemperatures == {-5, 9, 10, 25, 26, 30}

FilterContexts == ContextsOver({}, RequestWeathers, FilterTemperatures, {})

FilterGarment(category, material, season) ==
    IF material = <<>>
    THEN [id |-> "g1", category |-> category, primaryColor |-> Word("gray"),
          season |-> season, tags |-> <<>>]
    ELSE [id |-> "g1", category |-> category, primaryColor |-> Word("gray"),
          material |-> material[1], season |-> season, tags |-> <<>>]

Jeans ==
    [id |-> "g2", category |-> "bottoms", primaryColor |-> Word("blue"),
     material |-> Word("denim"), season |-> "all-season", tags |-> <<>>]

InitFilter ==
    /\ \E c \in FilterCategories : \E m \in FilterMaterials : \E s \in FilterSeasons :
          garments \in {<<FilterGarment(c, m, s)>>, <<FilterGarment(c, m, s), Jeans>>}
    /\ input \in FilterContexts
    /\ pc = "Received"
    /\ filteredGarments = <<>>
    /\ candidates = <<>>
    /\ rankedCandidates = <<>>
    /\ result = <<>>
    /\ trace = <<"Received">>
    /\ calls = 1
    /\ previous = <<>>
    /\ pieces = <<>>
    /\ scoreMood = "casual"
    /\ subScores = <<>>
    /\ pieceReasons = <<>>
    /\ HookIdle
    /\ body = <<>>
    /\ response = <<>>

SpecFilter == InitFilter /\ [][Next]_vars


(***************************************************************************)
(* The candidate generator on wardrobes of plain garments, in every order  *)
(* of the categories.                                                      *)
(***************************************************************************)
\* largest number of garments of such a wardrobe
MaxGenerate == 6

PlainIds == <<"g1", "g2", "g3", "g4", "g5", "g6", "g7", "g8">>

GenerateCategories == {"tops", "bottoms", "shoes", "accessories", "outerwear"}

\* a garment without material and tags at a position of the wardrobe
PlainGarment(category, position) ==
    [id |-> PlainIds[position], category |-> category,
     primaryColor |-> Word("gray"), season |-> "all-season", tags |-> <<>>]

InitGenerate ==
    /\ \E n \in 0..MaxGenerate :
          \E categories \in [1..n -> GenerateCategories] :
              garments = [k \in 1..n |-> PlainGarment(categories[k], k)]
    /\ input = [userId |-> "user1", limitCount |-> 1]
    /\ pc = "Received"
    /\ filteredGarments = <<>>
    /\ candidates = <<>>
    /\ rankedCandidates = <<>>
    /\ result = <<>>
    /\ trace = <<"Received">>
    /\ calls = 1
    /\ previous = <<>>
    /\ pieces = <<>>
    /\ scoreMood = "casual"
    /\ subScores = <<>>
    /\ pieceReasons = <<>>
    /\ HookIdle
    /\ body = <<>>
    /\ response = <<>>

SpecGenerate == InitGenerate /\ [][Next]_vars


(***************************************************************************)
(* POST /api/recommendations (src/apps/web/app/api/recommendations/        *)
(* route.ts). The body is <<b>> for a request whose JSON parses to the     *)
(* object b and <<>> for a request whose JSON does not parse.              *)
(***************************************************************************)
\* the limit the handler passes on when the body gives none (limitCount = 5)
ROUTE_DEFAULT_LIMIT == 5

\* g.createdAt instanceof Date ? g.createdAt : new Date(g.createdAt)
processedGarment(g) ==
    [x \in DOMAIN g \cup {"createdAt"} |->
        IF x = "createdAt"
        THEN <<"Date", IF Has(g, "createdAt") THEN g.createdAt ELSE "Invalid Date">>
        ELSE g[x]]

\* garments = [] of the destructuring, then garments.map (lines 15-23)
processedGarments(b) ==
    IF Has(b, "garments")
    THEN [i \in 1..Len(b.garments) |-> processedGarment(b.garments[i])]
    ELSE <<>>

\* the fields the handler takes from the body and hands on (lines 8-16,
\* 25-32)
inputFields == {"userId", "mood", "weather", "temperature", "occasion", "limitCount"}

\* the object of lines 25-32: the six named fields and no other field of
\* the body; a property whose value is undefined is a missing field
recommendationInput(b) ==
    [x \in (DOMAIN b \cap inputFields) \cup {"limitCount"} |->
        IF x = "limitCount" /\ ~Has(b, "limitCount") THEN ROUTE_DEFAULT_LIMIT
        ELSE b[x]]

\* JSON.stringify of the result: a Date becomes its ISO text
toJSON(res) ==
    [outfits |-> [i \in DOMAIN res.outfits |->
                     [res.outfits[i] EXCEPT !.createdAt = <<"ISO", @>>]],
     explanation |-> res.explanation,
     totalGenerated |-> res.totalGenerated]

\* the contexts of the HTTP requests, without and with an occasion, with a
\* field the handler does not name, with a mood for which the engine
\* throws, and with empty texts as mood and weather
RouteContexts ==
    UNION {WithOptional(c, "occasion", {"work"}) :
              c \in ContextsOver({"formal"}, {"sunny"}, {}, {1})}
    \cup {[userId |-> "user1", mood |-> "formal", sessionId |-> "abc"],
          [userId |-> "user1", mood |-> "constructor"],
          [userId |-> "user1", mood |-> "", weather |-> ""]}

\* an HTTP request: a context with or without garments, or unparseable
InitRoute ==
    /\ \/ body = <<>>
       \/ \E c \in RouteContexts : body = <<c>>
       \/ \E c \in RouteContexts : \E w \in Wardrobes :
              body = <<[x \in DOMAIN c \cup {"garments"} |->
                          IF x = "garments" THEN w ELSE c[x]]>>
    /\ response = <<>>
    /\ pc = "Posted"
    /\ garments = <<>>
    /\ input = [userId |-> "user1"]
    /\ filteredGarments = <<>>
    /\ candidates = <<>>
    /\ rankedCandidates = <<>>
    /\ result = <<>>
    /\ trace = <<"Posted">>
    /\ calls = 1
    /\ previous = <<>>
    /\ pieces = <<>>
    /\ scoreMood = "casual"
    /\ subScores = <<>>
    /\ pieceReasons = <<>>
    /\ HookIdle

\* lines 6-37: parse the body, build the arguments and call generateOutfits;
\* a body that does not parse goes to the catch block (lines 40-46)
Post ==
    /\ pc = "Posted"
    /\ IF body = <<>>
       THEN /\ response' = <<[status |-> 500,
                              json |-> [error |-> "Failed to generate recommendations"]]>>
            /\ pc' = "Responded"
            /\ UNCHANGED <<garments, input, trace>>
       ELSE /\ garments' = processedGarments(body[1])
            /\ input' = recommendationInput(body[1])
            /\ pc' = "Received"
            /\ trace' = <<"Received">>
            /\ UNCHANGED response
    /\ UNCHANGED <<body, filteredGarments, candidates, rankedCandidates, result,
                   calls, previous>>
    /\ UNCHANGED <<scoreVars, hookVars>>

\* line 39: return NextResponse.json(result); an error thrown by
\* generateOutfits goes to the catch block (lines 40-46)
Respond ==
    /\ pc \in Ended
    /\ response' = IF pc = "Thrown"
                   THEN <<[status |-> 500,
                           json |-> [error |-> "Failed to generate recommendations"]]>>
                   ELSE <<[status |-> 200, json |-> toJSON(result[1])]>>
    /\ pc' = "Responded"
    /\ UNCHANGED <<body, garments, input, filteredGarments, candidates,
                   rankedCandidates, result, trace, calls, previous>>
    /\ UNCHANGED <<scoreVars, hookVars>>

NextRoute == Post \/ Next \/ Respond

SpecRoute == InitRoute /\ [][NextRoute]_vars


(***************************************************************************)
(* The scorer called on its own on a list of pieces.                       *)
(***************************************************************************)
\* largest number of pieces scored together
MaxPieces == 4

\* the colors of the pieces: the six of the complementary pairs, one with a
\* capital, two neutrals, and one color outside ASCII in two spellings that
\* differ in case only
SwatchColors ==
    {Word("Blue"), Word("orange"), Word("red"), Word("green"), Word("yellow"),
     Word("purple"), Word("black"), Word("gray"),
     Word("(U+00C9)cru"), Word("(U+00E9)cru")}

PieceCategories == <<"tops", "bottoms", "shoes", "accessories">>

\* a garment without material and tags, of the category of its position
Swatch(color, position) ==
    [id |-> <<"p", position>>,
     category |-> PieceCategories[Min(position, Len(PieceCategories))],
     primaryColor |-> color, season |-> "all-season", tags |-> <<>>]

InitScore ==
    /\ \E n \in 1..MaxPieces :
          \E colors \in [1..n -> SwatchColors] :
              pieces = [k \in 1..n |-> Swatch(colors[k], k)]
    /\ scoreMood \in {"casual"}
    /\ subScores = <<>>
    /\ pieceReasons = <<>>
    /\ HookIdle
    /\ pc = "Received"
    /\ garments = <<>>
    /\ input = [userId |-> "user1"]
    /\ filteredGarments = <<>>
    /\ candidates = <<>>
    /\ rankedCandidates = <<>>
    /\ result = <<>>
    /\ trace = <<"Received">>
    /\ calls = 1
    /\ previous = <<>>
    /\ body = <<>>
    /\ response = <<>>

\* scoreOutfit and its six sub-scorers applied to the pieces (lines 307-342):
\* the values they return, or the error scoreOutfit throws
ScorePieces ==
    /\ subScores = <<>>
    /\ subScores' = IF scoreOutfitThrows(pieces, scoreMood)
                    THEN <<scoreOutfit(pieces, scoreMood, pieces)>>
                    ELSE <<[color       |-> scoreColorHarmony(pieces),
                            mood        |-> scoreMoodAlignment(pieces, scoreMood),
                            style       |-> scoreStyleCoherence(pieces),
                            occasion    |-> scoreOccasionMatching(pieces, scoreMood),
                            versatility |-> scoreVersatility(pieces),
                            diversity   |-> scoreDiversity(pieces),
                            total       |-> scoreOutfit(pieces, scoreMood, pieces)]>>
    /\ UNCHANGED <<pieces, scoreMood, pieceReasons>>
    /\ UNCHANGED <<engineVars, routeVars, hookVars>>

NextScore == ScorePieces

SpecScore == InitScore /\ [][NextScore]_vars


(***************************************************************************)
(* The scorer and generateReasons called on lists of tagged pieces, for    *)
(* every mood and for a mood outside the tables.                           *)
(***************************************************************************)
\* largest number of tagged pieces scored together
MaxTagged == 3

\* garments whose materials and tags carry the keywords of the tables: in
\* another case, inside a longer text, twice, or together
TaggedPieces ==
    {[id |-> "q1", category |-> "tops", primaryColor |-> Word("Blue"),
      material |-> Word("Merino Wool"), season |-> "all-season",
      tags |-> <<Word("formal"), Word("classic"), Word("versatile-high"),
                 Word("structured"), Word("silk-lined")>>],
     [id |-> "q2", category |-> "tops", primaryColor |-> Word("orange"),
      material |-> Word("Soft Fleece"), season |-> "all-season",
      tags |-> <<Word("casual"), Word("versatile-medium"), Word("Relaxed")>>],
     [id |-> "q3", category |-> "bottoms", primaryColor |-> Word("black"),
      season |-> "all-season",
      tags |-> <<Word("smart-casual"), Word("versatile-high"),
                 Word("versatile-medium")>>],
     [id |-> "q4", category |-> "accessories", primaryColor |-> Word("gray"),
      material |-> Word("silk"), season |-> "all-season",
      tags |-> <<Word("classic"), Word("classic")>>],
     [id |-> "q5", category |-> "shoes", primaryColor |-> Word("red"),
      material |-> Word("leather"), season |-> "all-season",
      tags |-> <<Word("bold"), Word("night"), Word("bright")>>],
     [id |-> "q6", category |-> "tops", primaryColor |-> Word("white"),
      material |-> Word("cotton"), season |-> "all-season", tags |-> <<>>],
     [id |-> "q7", category |-> "bottoms", primaryColor |-> Word("navy"),
      material |-> Word("linen"), season |-> "all-season",
      tags |-> <<Word("minimalist"), Word("clean"), Word("work")>>],
     [id |-> "q8", category |-> "shoes", primaryColor |-> Word("green"),
      material |-> Word("canvas"), season |-> "all-season",
      tags |-> <<Word("trendy"), Word("bold-print"), Word("weekend")>>]}

\* the seven moods and values outside the Mood type
TaggedMoods == Moods \cup {"festive"} \cup InheritedMoods

InitTagged ==
    /\ \E n \in 1..MaxTagged : pieces \in [1..n -> TaggedPieces]
    /\ scoreMood \in TaggedMoods
    /\ subScores = <<>>
    /\ pieceReasons = <<>>
    /\ HookIdle
    /\ pc = "Received"
    /\ garments = <<>>
    /\ input = [userId |-> "user1"]
    /\ filteredGarments = <<>>
    /\ candidates = <<>>
    /\ rankedCandidates = <<>>
    /\ result = <<>>
    /\ trace = <<"Received">>
    /\ calls = 1
    /\ previous = <<>>
    /\ body = <<>>
    /\ response = <<>>

\* generateReasons applied to the pieces (lines 532-609), after they were
\* scored (lines 245-246) and when scoring did not throw
ExplainPieces ==
    /\ subScores # <<>>
    /\ ~isError(subScores[1])
    /\ pieceReasons = <<>>
    /\ pieceReasons' = <<generateReasons(pieces, scoreMood)>>
    /\ UNCHANGED <<pieces, scoreMood, subScores>>
    /\ UNCHANGED <<engineVars, routeVars, hookVars>>

NextTagged == ScorePieces \/ ExplainPieces

SpecTagged == InitTagged /\ [][NextTagged]_vars


(***************************************************************************)
(* useOutfitRecommendations (src/apps/web/hooks/                           *)
(* use-outfit-recommendations.ts). A generate call runs until it awaits,   *)
(* and each continuation runs to its next await or to the end: these are   *)
(* the steps. Several calls may be awaiting at once (the home page calls   *)
(* generate whenever the mood or the weather changes).                     *)
(***************************************************************************)
\* largest number of generate calls started
MaxHookCalls == 3

\* a value caught at line 82: an Error with its message, or a value that is
\* no Error
ErrorValue(message) == [instanceofError |-> TRUE, message |-> message]

NotAnError == [instanceofError |-> FALSE]

\* the Error thrown for a response that is not ok (line 76)
notOkError == ErrorValue(<<"Failed to generate recommendations">>)

\* the values with which fetch rejects. They come from the runtime, not from
\* the source: the TypeError of a browser for a network failure, the
\* TypeError of Node for the relative URL, or a value that is no Error
fetchRejections ==
    {ErrorValue(<<"Failed to fetch">>),
     ErrorValue(<<"Failed to parse URL from /api/recommendations">>),
     NotAnError}

\* the values with which response.json() rejects: the SyntaxError of the
\* runtime for a body that is no JSON, or a value that is no Error
jsonRejections ==
    {ErrorValue(<<"Unexpected end of JSON input">>),
     ErrorValue(<<"Unexpected token '<', \"<!DOCTYPE \"... is not valid JSON">>),
     NotAnError}

\* the RangeError thrown by toISOString for an invalid Date (line 56), with
\* the text of the runtime
invalidDateErrors ==
    {ErrorValue(<<"Invalid time value">>), ErrorValue(<<"invalid date">>)}

\* the TypeError thrown by data.outfits (line 80) when response.json()
\* resolved with null, with the text of the runtime
nullDataErrors ==
    {ErrorValue(<<"Cannot read properties of null (reading 'outfits')">>),
     ErrorValue(<<"can't access property \"outfits\", data is null">>)}

\* err instanceof Error ? err.message : "Unknown error occurred" (lines 83-84)
errorMessage(err) ==
    IF err.instanceofError THEN err.message ELSE <<"Unknown error occurred">>

\* the bodies an ok response to call k can carry: outfits for the request,
\* the result without outfits, or an object without the two fields
ResponseBodies(k) ==
    {[outfits |-> << [id |-> <<"outfit-", k, "-", 0>>] >>,
      explanation |-> <<"Outfit recommendations for request ", k>>,
      totalGenerated |-> 1],
     [outfits |-> <<>>,
      explanation |-> emptyWardrobeMessage,
      totalGenerated |-> 0],
     [totalGenerated |-> 0]}

\* the catch and finally blocks (lines 82-89) for call k, which caught err
catchAndFinally(k, err, phaseNow, outcomeNow) ==
    /\ error' = <<errorMessage(err)>>
    /\ hookOutfits' = <<>>
    /\ loading' = FALSE
    /\ phase' = [phaseNow EXCEPT ![k] = "settled"]
    /\ outcome' = [outcomeNow EXCEPT
                      ![k] = <<[ok |-> FALSE, message |-> errorMessage(err)]>>]
    /\ UNCHANGED explanation

\* generate is called: lines 45-73 up to the await of fetch; when a garment
\* holds an invalid Date, toISOString throws and the call ends in the
\* catch and finally blocks at once
Generate ==
    /\ Len(phase) < MaxHookCalls
    /\ \/ /\ loading' = TRUE
          /\ error' = <<>>
          /\ phase' = Append(phase, "fetching")
          /\ outcome' = Append(outcome, <<>>)
          /\ UNCHANGED <<hookOutfits, explanation>>
       \/ \E err \in invalidDateErrors :
             catchAndFinally(Len(phase) + 1, err,
                             Append(phase, "fetching"), Append(outcome, <<>>))
    /\ resetSinceStart' = FALSE
    /\ UNCHANGED <<engineVars, scoreVars, routeVars>>

\* the fetch of a call settles (lines 61-77): it rejects, or the response
\* is not ok, or it is ok and the call awaits response.json()
FetchSettles ==
    /\ \E k \in DOMAIN phase :
          /\ phase[k] = "fetching"
          /\ \/ \E err \in fetchRejections : catchAndFinally(k, err, phase, outcome)
             \/ catchAndFinally(k, notOkError, phase, outcome)
             \/ /\ phase' = [phase EXCEPT ![k] = "parsing"]
                /\ UNCHANGED <<hookOutfits, loading, error, explanation, outcome>>
    /\ UNCHANGED resetSinceStart
    /\ UNCHANGED <<engineVars, scoreVars, routeVars>>

\* response.json() of a call settles (lines 79-89): it resolves with an
\* object, whose outfits and explanation are stored, or with null, and
\* reading data.outfits throws, or it rejects
JsonSettles ==
    /\ \E k \in DOMAIN phase :
          /\ phase[k] = "parsing"
          /\ \/ \E data \in ResponseBodies(k) :
                   /\ hookOutfits' = (IF Has(data, "outfits") THEN data.outfits ELSE <<>>)
                   /\ explanation' = (IF Has(data, "explanation")
                                      THEN data.explanation ELSE <<>>)
                   /\ loading' = FALSE
                   /\ phase' = [phase EXCEPT ![k] = "settled"]
                   /\ outcome' = [outcome EXCEPT ![k] = <<[ok |-> TRUE, data |-> data]>>]
                   /\ UNCHANGED error
             \/ \E err \in jsonRejections \cup nullDataErrors :
                   catchAndFinally(k, err, phase, outcome)
    /\ UNCHANGED resetSinceStart
    /\ UNCHANGED <<engineVars, scoreVars, routeVars>>

\* reset (lines 94-98)
Reset ==
    /\ hookOutfits' = <<>>
    /\ error' = <<>>
    /\ explanation' = <<>>
    /\ resetSinceStart' = TRUE
    /\ UNCHANGED <<loading, phase, outcome>>
    /\ UNCHANGED <<engineVars, scoreVars, routeVars>>

InitHook ==
    /\ HookIdle
    /\ pc = "Received"
    /\ garments = <<>>
    /\ input = [userId |-> "user1"]
    /\ filteredGarments = <<>>
    /\ candidates = <<>>
    /\ rankedCandidates = <<>>
    /\ result = <<>>
    /\ trace = <<"Received">>
    /\ calls = 1
    /\ previous = <<>>
    /\ pieces = <<>>
    /\ scoreMood = "casual"
    /\ subScores = <<>>
    /\ pieceReasons = <<>>
    /\ body = <<>>
    /\ response = <<>>

NextHook == Generate \/ FetchSettles \/ JsonSettles \/ Reset

SpecHook == InitHook /\ [][NextHook]_vars


(***************************************************************************)
(* Properties.                                                             *)
(***************************************************************************)
\* the call has returned
Returned == pc \in Terminal

\* the context gives a weather or a mood: the field holds a text that is
\* not empty
Gives(inp, field) == field \in DOMAIN inp /\ inp[field] # ""

\* the scorer called on its own has returned its values
Scored == subScores # <<>> /\ ~isError(subScores[1])

\* a clock that stands still at 0, with readings for as many outfits as a
\* call of the model returns
ClockAtZero == StoppedClock(0, 2 * (DEFAULT_LIMIT + MaxLimit))

\* the outfits of the value returned
Outfits == result[1].outfits

\* the candidates in the order generateCandidates produced them
Generated == generateCandidates(filteredGarments, moodOrCasual(input))

\* position in the sequence gen of the candidate with the given garment ids
PositionIn(gen, ids) == CHOOSE k \in DOMAIN gen : gen[k].garmentIds = ids

\* C1: no outfit in the list returned by generateOutfits has a score below 60
C1_Threshold ==
    Returned => \A i \in DOMAIN Outfits : Outfits[i].score >= 60

\* a result holding an outfit that scores exactly 60
C1_Witness ==
    pc = "Result" /\ \E i \in DOMAIN Outfits : Outfits[i].score = 60

\* C2: the number of outfits returned is at most limitCount, and at most 6
\* when the request gives no limit
C2_Limit ==
    Returned =>
        Len(Outfits) <= (IF Has(input, "limitCount") THEN input.limitCount ELSE 6)

\* the outfits gen ranks: descending scores, each outfit a candidate of gen,
\* equal scores in the order of gen
RankedFrom(gen, outfits) ==
    /\ \A i \in DOMAIN outfits :
          \E k \in DOMAIN gen :
              /\ gen[k].garmentIds = outfits[i].garmentIds
              /\ gen[k].score = outfits[i].score
    /\ \A i, j \in DOMAIN outfits :
          i < j =>
              /\ outfits[i].score >= outfits[j].score
              /\ outfits[i].score = outfits[j].score =>
                    PositionIn(gen, outfits[i].garmentIds)
                        < PositionIn(gen, outfits[j].garmentIds)

\* C3: the outfits are in descending order of score, every outfit is a
\* generated candidate, and outfits of equal score are in generation order:
\* the candidates selected by the rank stage are ranked so, and the outfits
\* returned are those candidates, one for one in their order
C3_StableRanking ==
    /\ pc = "Ranked" => \A gen \in {Generated} : RankedFrom(gen, rankedCandidates)
    /\ pc = "Result" =>
          /\ Len(Outfits) = Len(rankedCandidates)
          /\ \A i \in DOMAIN Outfits :
                /\ Outfits[i].garmentIds = rankedCandidates[i].garmentIds
                /\ Outfits[i].score = rankedCandidates[i].score

\* a result where the sort moved a candidate forward and kept a tie in
\* generation order
C3_Witness ==
    /\ pc = "Result"
    /\ \E gen \in {Generated} :
          /\ \E i, j \in DOMAIN Outfits :
                i < j /\ Outfits[i].score = Outfits[j].score
          /\ \E i, j \in DOMAIN Outfits :
                /\ i < j
                /\ Outfits[i].score > Outfits[j].score
                /\ PositionIn(gen, Outfits[i].garmentIds)
                       > PositionIn(gen, Outfits[j].garmentIds)

\* number of the ids that belong to a garment of the request with the category
CountCategory(ids, category) ==
    Cardinality({k \in DOMAIN ids :
        \E n \in DOMAIN garments :
            garments[n].id = ids[k] /\ garments[n].category = category})

\* C4: every returned outfit has 2 to 4 garment ids, each the id of a garment
\* of the request: exactly one top, exactly one bottom, at most one shoe, at
\* most one accessory and nothing else
C4_Composition ==
    pc = "Result" =>
        \A i \in DOMAIN Outfits :
            LET ids == Outfits[i].garmentIds
            IN  /\ Len(ids) \in 2..4
                /\ \A k \in DOMAIN ids : \E n \in DOMAIN garments : garments[n].id = ids[k]
                /\ CountCategory(ids, "tops") = 1
                /\ CountCategory(ids, "bottoms") = 1
                /\ CountCategory(ids, "shoes") <= 1
                /\ CountCategory(ids, "accessories") <= 1
                /\ CountCategory(ids, "outerwear") = 0
                /\ CountCategory(ids, "tops") + CountCategory(ids, "bottoms")
                   + CountCategory(ids, "shoes") + CountCategory(ids, "accessories")
                   = Len(ids)

\* a result with a four-piece outfit and a shoeless one, from a wardrobe
\* that also holds outerwear
C4_Witness ==
    /\ pc = "Result"
    /\ \E i \in DOMAIN Outfits : Len(Outfits[i].garmentIds) = 4
    /\ \E i \in DOMAIN Outfits : CountCategory(Outfits[i].garmentIds, "shoes") = 0
    /\ \E n \in DOMAIN garments : garments[n].category = "outerwear"

\* C5: every candidate produced by generateCandidates has an integer score
\* between 50 and 100
C5_ScoreBounds ==
    \A k \in DOMAIN candidates : candidates[k].score \in 50..100

\* candidates at both ends of the scores reached: 60 and the cap 100
C5_Witness ==
    /\ pc = "Generated"
    /\ \E k \in DOMAIN candidates : candidates[k].score = 100
    /\ \E k \in DOMAIN candidates : candidates[k].score = 60

\* the value returned without the stamps taken from the clock
StripStamps(res) ==
    [outfits |-> [i \in DOMAIN res.outfits |->
                     [f \in DOMAIN res.outfits[i] \ {"id", "createdAt"} |->
                         res.outfits[i][f]]],
     explanation |-> res.explanation,
     totalGenerated |-> res.totalGenerated]

C7_EmptyWardrobe ==
    (Returned /\ garments = <<>>) =>
        /\ result[1] = [outfits |-> <<>>,
                        explanation |->
                            <<"No garments found in wardrobe. Please add items first.">>,
                        totalGenerated |-> 0]
        /\ trace = <<"Received", "EmptyWardrobe">>
        /\ filteredGarments = <<>>
        /\ candidates = <<>>

\* the empty wardrobe returned for a context with weather and temperature
C7_Witness ==
    /\ pc = "EmptyWardrobe"
    /\ Has(input, "weather")
    /\ Has(input, "temperature")

\* the garments have no top or no bottom
NoTopOrBottom(gs) ==
    \/ ~ \E n \in DOMAIN gs : gs[n].category = "tops"
    \/ ~ \E n \in DOMAIN gs : gs[n].category = "bottoms"

\* C8: when the wardrobe is not empty and the garments surviving the context
\* filter have no top or no bottom, the call returns no outfit with the
\* no-suitable-outfits explanation
C8_NoTopOrBottom ==
    (Returned /\ garments # <<>> /\ NoTopOrBottom(filterByContext(garments, input))) =>
        /\ Outfits = <<>>
        /\ result[1].explanation =
              <<"No suitable outfits found for the current weather and mood combination.">>

\* C9: totalGenerated is the number of outfits returned; each of the three
\* no-result outcomes returns no outfit and totalGenerated 0; and the
\* explanation tells the three outcomes apart
C9_Outcomes ==
    Returned =>
        /\ result[1].totalGenerated = Len(Outfits)
        /\ pc # "Result" => (Outfits = <<>> /\ result[1].totalGenerated = 0)
        /\ pc = "Result" => Len(Outfits) > 0
        /\ pc = "EmptyWardrobe" <=> result[1].explanation = emptyWardrobeMessage
        /\ pc = "NoEligibleGarments" <=> result[1].explanation = noSuitableMessage
        /\ pc = "NoQualifyingOutfits" <=> result[1].explanation = noHighQualityMessage

\* a result that leaves out candidates because of the limit
C9_Witness ==
    /\ pc = "Result"
    /\ Len(candidates) > Len(Outfits)
    /\ Len(Outfits) = 6

\* the lowercased primary colors of the pieces
LowerColors(ps) == {toLowerCase(ps[i].primaryColor) : i \in DOMAIN ps}

\* the complementary pairs whose two colors both occur among the pieces
PairsPresent(ps) ==
    {p \in {<<Word("blue"), Word("orange")>>, <<Word("red"), Word("green")>>,
            <<Word("yellow"), Word("purple")>>} :
        p[1] \in LowerColors(ps) /\ p[2] \in LowerColors(ps)}

\* the pieces whose lowercased primary color is neutral
NeutralPieces(ps) ==
    {i \in DOMAIN ps :
        toLowerCase(ps[i].primaryColor) \in
            {Word("black"), Word("white"), Word("gray"), Word("beige"), Word("navy")}}

\* C10: for at least 2 pieces the color-harmony sub-score is
\* min(20, 15 * pairs present + 10 if one color + 8 if at most one piece is
\* not neutral); a blue top with an orange bottom, alone or with extra
\* neutral pieces, gets 15 and a total of at least 65
C10_ColorHarmony ==
    (subScores # <<>> /\ Len(pieces) >= 2) =>
        /\ subScores[1].color =
              Min(20, 15 * Cardinality(PairsPresent(pieces))
                      + (IF Cardinality(LowerColors(pieces)) = 1 THEN 10 ELSE 0)
                      + (IF Cardinality(NeutralPieces(pieces)) >= Len(pieces) - 1
                         THEN 8 ELSE 0))
        /\ ( /\ toLowerCase(pieces[1].primaryColor) = Word("blue")
             /\ toLowerCase(pieces[2].primaryColor) = Word("orange")
             /\ \A i \in DOMAIN pieces : i > 2 => i \in NeutralPieces(pieces) )
           => (subScores[1].color = 15 /\ subScores[1].total >= 65)

\* a blue top and an orange bottom scored with two neutral pieces added
C10_Witness ==
    /\ subScores # <<>>
    /\ Len(pieces) = 4
    /\ pieces[1].primaryColor = Word("Blue")
    /\ pieces[2].primaryColor = Word("orange")
    /\ NeutralPieces(pieces) = {3, 4}
    /\ subScores[1].color = 15


\* the closing description of each of the seven moods
ClosingDescription(mood) ==
    CASE mood = "casual"      -> <<"Perfect for a relaxed day">>
      [] mood = "formal"      -> <<"Polished and professional">>
      [] mood = "adventurous" -> <<"Ready for an adventure">>
      [] mood = "cozy"        -> <<"Comfortable and warm">>
      [] mood = "energetic"   -> <<"Energizing and uplifting">>
      [] mood = "minimalist"  -> <<"Clean and simple">>
      [] mood = "bold"        -> <<"Statement-making outfit">>

SevenMoods ==
    {"casual", "formal", "adventurous", "cozy", "energetic", "minimalist", "bold"}

\* the reasons end with the closing text and hold it nowhere before
ClosesWith(reasons, closing) ==
    /\ Len(reasons) >= 1
    /\ reasons[Len(reasons)] = closing
    /\ \A k \in 1..(Len(reasons) - 1) : reasons[k] # closing

\* C11: when the context gives one of the seven moods, the reasons of every
\* returned outfit are not empty, end with the closing description of that
\* mood, hold no closing description before the end, and the explanation of
\* the outfit is these reasons joined
C11_MoodClosing ==
    (pc = "Result" /\ Has(input, "mood") /\ input.mood \in SevenMoods) =>
        \A i \in DOMAIN Outfits :
            /\ ClosesWith(rankedCandidates[i].reasons, ClosingDescription(input.mood))
            /\ \A k \in 1..(Len(rankedCandidates[i].reasons) - 1) :
                  \A m \in SevenMoods :
                      rankedCandidates[i].reasons[k] # ClosingDescription(m)
            /\ Outfits[i].explanation =
                  Join(rankedCandidates[i].reasons, " (U+2022) ")

\* a cozy request returned an outfit with reasons before "Comfortable and warm"
C11_Witness ==
    /\ pc = "Result"
    /\ Has(input, "mood")
    /\ input.mood = "cozy"
    /\ \E i \in DOMAIN Outfits :
          /\ Len(rankedCandidates[i].reasons) >= 3
          /\ rankedCandidates[i].reasons[Len(rankedCandidates[i].reasons)]
                 = <<"Comfortable and warm">>


\* the garments of the request with the given ids, in the order of the ids
PiecesOf(ids) ==
    [k \in DOMAIN ids |->
        garments[CHOOSE n \in DOMAIN garments : garments[n].id = ids[k]]]

\* the score of the pieces without the two mood-dependent sub-scores
ScoreWithoutMood(ps) ==
    Min(100, 50 + scoreColorHarmony(ps) + scoreStyleCoherence(ps)
                + scoreVersatility(ps) + scoreDiversity(ps))

\* C12: when the context gives no mood, the reasons of every returned outfit
\* end with the generic "Well-coordinated look", not with the closing
\* description of one of the seven moods, and the score holds no mood bonus
C12_NoMoodGeneric ==
    (pc = "Result" /\ ~Gives(input, "mood")) =>
        \A i \in DOMAIN Outfits :
            /\ ClosesWith(rankedCandidates[i].reasons, <<"Well-coordinated look">>)
            /\ \A m \in SevenMoods :
                  rankedCandidates[i].reasons[Len(rankedCandidates[i].reasons)]
                      # ClosingDescription(m)
            /\ (\A n \in DOMAIN garments : garments[n].id # "barefoot") =>
                  Outfits[i].score = ScoreWithoutMood(PiecesOf(Outfits[i].garmentIds))


SevenWeathers == {"sunny", "cloudy", "rainy", "snowy", "windy", "hot", "cold"}

\* the record without the field
WithoutField(rec, field) == [x \in DOMAIN rec \ {field} |-> rec[x]]

\* garment ids, score and explanation of the outfits, position by position
OutfitContents(outfits) ==
    [i \in DOMAIN outfits |->
        [garmentIds  |-> outfits[i].garmentIds,
         score       |-> outfits[i].score,
         explanation |-> outfits[i].explanation]]

\* C13: a weather outside the seven documented values excludes no garment
\* and the call returns the outfits it returns for the same request without
\* weather
C13_UnknownWeather ==
    (pc \in Ended /\ Gives(input, "weather") /\ input.weather \notin SevenWeathers) =>
        /\ pc # "Thrown"
        /\ filterByContext(garments, input)
              = filterByContext(garments, WithoutField(input, "weather"))
        /\ OutfitContents(Outfits)
              = OutfitContents(
                    generateOutfits(garments, WithoutField(input, "weather"),
                                    ClockAtZero).outfits)

\* the clock readings a returned value was stamped with, in the order they
\* were taken
ReadingsOf(res) ==
    IF isError(res) THEN <<>>
    ELSE [n \in 1..(2 * Len(res.outfits)) |->
             IF n % 2 = 1 THEN res.outfits[(n + 1) \div 2].id[2]
             ELSE res.outfits[n \div 2].createdAt]

\* the value returned or the error thrown is that of generateOutfits for
\* the request and the clock readings taken
EngineFunction ==
    pc \in Ended => result[1] = generateOutfits(garments, input, ReadingsOf(result[1]))


\* the decimal text of the temperatures of the requests
TemperatureText(t) ==
    CASE t = 0  -> <<"0">>
      [] t = 10 -> <<"1", "0">>
      [] t = 25 -> <<"2", "5">>
      [] t = 26 -> <<"2", "6">>

\* the mentions of weather, mood and temperature, each led by a blank
Mentions(inp) ==
    (IF Gives(inp, "weather")
     THEN <<" ", "Recommended for ", inp.weather, " weather">> ELSE <<>>)
    \o (IF Gives(inp, "mood")
        THEN <<" ", "with a ", inp.mood, " vibe">> ELSE <<>>)
    \o (IF Has(inp, "temperature")
        THEN <<" ", "(">> \o TemperatureText(inp.temperature) \o <<"(U+00B0)C)">>
        ELSE <<>>)

\* C14: the explanation of a non-empty result is the generic sentence when
\* the context has no weather, no mood and no temperature, and else the
\* sentence that mentions the weather, the mood and the temperature (0
\* included), in that order, each exactly when it is in the context (an
\* empty text is no weather and no mood); it is a function of the context
\* alone
C14_Explanation ==
    pc = "Result" =>
        result[1].explanation =
            IF ~Gives(input, "weather") /\ ~Gives(input, "mood") /\ ~Has(input, "temperature")
            THEN <<"Outfit recommendations based on your wardrobe.">>
            ELSE <<"Outfit recommendations ">> \o Tail(Mentions(input))
                 \o <<". Mix and match pieces or shuffle for more options.">>

\* a result for a context with a mood and the temperature 0 and no weather
C14_Witness ==
    /\ pc = "Result"
    /\ Has(input, "temperature")
    /\ input.temperature = 0
    /\ Has(input, "mood")
    /\ ~Has(input, "weather")
    /\ Len(result[1].explanation) = 9


\* position of a stage in Received, Filtered, Generated, Scored&Ranked, Terminal
StageRank(stage) ==
    CASE stage = "Received"  -> 0
      [] stage = "Filtered"  -> 1
      [] stage = "Generated" -> 2
      [] stage = "Ranked"    -> 3
      [] stage \in {"Result", "EmptyWardrobe", "NoEligibleGarments",
                    "NoQualifyingOutfits", "Thrown"} -> 4

\* the stages gone through start with Received, never go back and end with
\* the current stage
TraceInOrder ==
    /\ trace[1] = "Received"
    /\ trace[Len(trace)] = pc
    /\ \A i, j \in DOMAIN trace : i < j => StageRank(trace[i]) < StageRank(trace[j])

\* the mood and the weather of the context are not names of inherited
\* properties: so is every context of the types Mood and WeatherCondition
NoInheritedName(inp) ==
    /\ Has(inp, "mood") => inp.mood \notin DOMAIN ObjectPrototype
    /\ Has(inp, "weather") => inp.weather \notin DOMAIN ObjectPrototype

\* C15: a request goes through Received, Filtered, Generated, Scored&Ranked
\* in this order and never back, no step leaves a state in which the call
\* is over, and for a context whose mood and weather name no inherited
\* property (every well-typed context) the call never throws, a value is
\* returned only in a terminal state, and the request eventually reaches
\* one of the four terminal states
C15_OnePass ==
    /\ [](/\ TraceInOrder
          /\ NoInheritedName(input) =>
                (pc # "Thrown" /\ (result # <<>> <=> pc \in Terminal)))
    /\ [][StageRank(pc') > StageRank(pc)]_pc
    /\ NoInheritedName(input) =>
          <>(pc \in {"Result", "EmptyWardrobe", "NoEligibleGarments",
                     "NoQualifyingOutfits"})

\* a request that went through every stage and returned outfits
C15_Witness ==
    /\ pc = "Result"
    /\ trace = <<"Received", "Filtered", "Generated", "Ranked", "Result">>
    /\ Len(Outfits) >= 1


\* the value without the stamps taken from the clock, as JSON carries it
ResponseContents(json) ==
    [outfits |-> [i \in DOMAIN json.outfits |->
                     [f \in DOMAIN json.outfits[i] \ {"id", "createdAt"} |->
                         json.outfits[i][f]]],
     explanation |-> json.explanation,
     totalGenerated |-> json.totalGenerated]

\* the garments of the request body, none when the body has no garments
BodyGarments(b) == IF Has(b, "garments") THEN b.garments ELSE <<>>

\* C16: the response of POST /api/recommendations to a request that parses
\* is the value of generateOutfits for the garments of the body and the
\* context made of the other fields of the body, unchanged; without
\* limitCount in the body this is the value for the engine's default limit 6
C16_PassThrough ==
    (pc = "Responded" /\ body # <<>>) =>
        \A expected \in {generateOutfits(BodyGarments(body[1]),
                                         WithoutField(body[1], "garments"),
                                         ClockAtZero)} :
            IF isError(expected) THEN response[1].status = 500
            ELSE /\ response[1].status = 200
                 /\ ResponseContents(response[1].json) = StripStamps(expected)


\* the seasons each of the seven weathers allows besides all-season
AllowList(weather) ==
    CASE weather = "sunny"  -> {"spring", "summer"}
      [] weather = "cloudy" -> {"spring", "summer", "fall"}
      [] weather = "rainy"  -> {"spring", "fall", "winter"}
      [] weather = "snowy"  -> {"winter"}
      [] weather = "windy"  -> {"fall", "winter"}
      [] weather = "hot"    -> {"summer"}
      [] weather = "cold"   -> {"winter"}

\* the season check for a context without weather or with one of the seven
SeasonPasses(g, inp) ==
    \/ ~Gives(inp, "weather")
    \/ g.season = "all-season"
    \/ g.season \in AllowList(inp.weather)

\* the garment of the request survived the context filter
Kept(g) == \E k \in DOMAIN filteredGarments : filteredGarments[k] = g

\* the temperature check lets every garment pass: none given, or 10..25
MildOrNoTemperature(inp) ==
    ~Has(inp, "temperature") \/ (inp.temperature >= 10 /\ inp.temperature <= 25)

\* C17: for a context with one of the seven weathers a garment passes the
\* season check iff its season is all-season or in the allow-list of the
\* weather, without weather every garment passes it, and no temperature lets
\* a garment through that the season check rejects
C17_SeasonCheck ==
    (pc # "Received" /\ (Gives(input, "weather") => input.weather \in SevenWeathers)) =>
        \A n \in DOMAIN garments :
            /\ Kept(garments[n]) => SeasonPasses(garments[n], input)
            /\ MildOrNoTemperature(input) =>
                  (Kept(garments[n]) <=> SeasonPasses(garments[n], input))
            /\ (~Gives(input, "weather") /\ MildOrNoTemperature(input)) => Kept(garments[n])

\* rainy weather at 25 degrees: a summer garment is rejected and the
\* all-season jeans are kept
C17_Witness ==
    /\ pc = "Filtered"
    /\ Has(input, "weather") /\ input.weather = "rainy"
    /\ Has(input, "temperature") /\ input.temperature = 25
    /\ Len(garments) = 2
    /\ garments[1].season = "summer"
    /\ filteredGarments = <<garments[2]>>


\* the materials of the requests that contain "wool" or "fleece" when lowercased
WoolOrFleece == {Word("Merino Wool"), Word("fleece")}

\* the materials of the requests that contain one of the four cold-weather words
ColdWeatherWords == WoolOrFleece \cup {Word("Down"), Word("synthetic")}

\* the garment has a material of the set
MaterialIn(g, materials) == Has(g, "material") /\ g.material \in materials

\* the temperature check as the three ranges state it
TemperaturePasses(g, t) ==
    IF t > 25 THEN ~(g.category = "outerwear" \/ MaterialIn(g, WoolOrFleece))
    ELSE IF t < 10 THEN g.category = "outerwear" \/ MaterialIn(g, ColdWeatherWords)
    ELSE TRUE

\* C18: a garment survives the filter iff it passes the season check and,
\* when a temperature is given, the temperature check: above 25 it is
\* excluded iff it is outerwear or of wool or fleece, below 10 it is kept iff
\* it is outerwear or of wool, fleece, down or synthetic, from 10 to 25 it
\* passes; without temperature only the season check decides
C18_TemperatureCheck ==
    (pc # "Received" /\ (Gives(input, "weather") => input.weather \in SevenWeathers)) =>
        \A n \in DOMAIN garments :
            Kept(garments[n]) <=>
                /\ SeasonPasses(garments[n], input)
                /\ Has(input, "temperature") =>
                      TemperaturePasses(garments[n], input.temperature)

\* a wool top with jeans at 30 degrees: only the jeans reach the generator,
\* which forms no candidate
C18_Witness ==
    /\ pc = "Generated"
    /\ Has(input, "temperature") /\ input.temperature = 30
    /\ Len(garments) = 2
    /\ garments[1].category = "tops"
    /\ MaterialIn(garments[1], {Word("Merino Wool")})
    /\ filteredGarments = <<garments[2]>>
    /\ candidates = <<>>


\* C19: when the wardrobe is not empty and the context filter keeps no
\* garment, the call returns no outfit, totalGenerated 0 and the
\* no-suitable-outfits explanation right after the filter: no candidate is
\* generated, scored or ranked
C19_NothingEligible ==
    (Returned /\ garments # <<>> /\ filterByContext(garments, input) = <<>>) =>
        /\ result[1] =
              [outfits |-> <<>>,
               explanation |->
                   <<"No suitable outfits found for the current weather and mood combination.">>,
               totalGenerated |-> 0]
        /\ trace = <<"Received", "Filtered", "NoEligibleGarments">>
        /\ candidates = <<>>
        /\ rankedCandidates = <<>>

\* a wardrobe with a top and a bottom of which the filter keeps nothing
C19_Witness ==
    /\ pc = "NoEligibleGarments"
    /\ \E n \in DOMAIN garments : garments[n].category = "tops"
    /\ \E n \in DOMAIN garments : garments[n].category = "bottoms"
    /\ filteredGarments = <<>>


\* the ids of the filtered garments of a category, in input order
IdsOfCategory(category) ==
    LET members == SelectSeq(filteredGarments, LAMBDA g : g.category = category)
    IN  [k \in 1..Len(members) |-> members[k].id]

Max(a, b) == IF a >= b THEN a ELSE b

\* the garment ids of the candidate at position c (from 0) for the tops,
\* bottoms, shoes and accessories given by their ids: the pairs in the order
\* top by top, bottom by bottom; for a pair first the shoe candidates, then
\* the accessory candidates
ExpectedIds(c, tops, bottoms, shoes, accessories) ==
    LET perPair == Max(1, Len(shoes)) + Min(2, Len(accessories))
        pair == c \div perPair
        within == c % perPair
        top == tops[(pair \div Len(bottoms)) + 1]
        bottom == bottoms[(pair % Len(bottoms)) + 1]
    IN  IF within < Max(1, Len(shoes))
        THEN IF Len(shoes) = 0 THEN <<top, bottom>>
             ELSE <<top, bottom, shoes[within + 1]>>
        ELSE IF Len(shoes) = 0
             THEN <<top, bottom, accessories[within - Max(1, Len(shoes)) + 1]>>
             ELSE <<top, bottom, shoes[1],
                    accessories[within - Max(1, Len(shoes)) + 1]>>

\* C20: for T tops, B bottoms, S shoes and A accessories among the filtered
\* garments the generator produces no candidate when T = 0 or B = 0, and
\* else T * B * (max(1, S) + min(2, A)) candidates: for each pair one per
\* shoe (one without shoe when S = 0), then one for each of the first two
\* accessories with the first shoe
C20_CandidateCount ==
    pc = "Generated" =>
        \A tops \in {IdsOfCategory("tops")} :
        \A bottoms \in {IdsOfCategory("bottoms")} :
        \A shoes \in {IdsOfCategory("shoes")} :
        \A accessories \in {IdsOfCategory("accessories")} :
            IF Len(tops) = 0 \/ Len(bottoms) = 0 THEN candidates = <<>>
            ELSE /\ Len(candidates) = Len(tops) * Len(bottoms)
                        * (Max(1, Len(shoes)) + Min(2, Len(accessories)))
                 /\ \A c \in DOMAIN candidates :
                       candidates[c].garmentIds =
                           ExpectedIds(c - 1, tops, bottoms, shoes, accessories)

\* candidates of a wardrobe with a shoe and three accessories: the third
\* accessory is in no candidate
C20_Witness ==
    /\ pc = "Generated"
    /\ Len(IdsOfCategory("accessories")) = 3
    /\ Len(IdsOfCategory("shoes")) = 1
    /\ Len(candidates) = 3
    /\ \A c \in DOMAIN candidates :
          ~arrIncludes(candidates[c].garmentIds, IdsOfCategory("accessories")[3])


\* the category of the garment of the request with the given id
CategoryOfId(id) ==
    garments[CHOOSE n \in DOMAIN garments : garments[n].id = id].category

\* the orders top, bottom, then the shoe if any, then the accessory if any
PieceOrders ==
    {<<"tops", "bottoms">>, <<"tops", "bottoms", "shoes">>,
     <<"tops", "bottoms", "accessories">>,
     <<"tops", "bottoms", "shoes", "accessories">>}

\* the number of pieces the candidate was scored and explained with, as its
\* piece-count reason tells it; 2 when it has no such reason
PiecesScored(candidate) ==
    IF candidate.reasons[1][1] = "Well-balanced outfit with "
    THEN CHOOSE n \in 3..4 : candidate.reasons[1][2] = Digits[n + 1]
    ELSE 2

\* C21: the garment ids of every candidate are in the order top, bottom,
\* shoe if any, accessory if any; the id "barefoot" is in the garment ids of
\* no candidate and no outfit; and the pieces a candidate was scored with
\* are all listed in its garment ids
C21_IdOrder ==
    pc \in {"Generated", "Ranked", "Result", "NoQualifyingOutfits"} =>
        /\ \A c \in DOMAIN candidates :
              /\ [k \in DOMAIN candidates[c].garmentIds |->
                     CategoryOfId(candidates[c].garmentIds[k])] \in PieceOrders
              /\ ~arrIncludes(candidates[c].garmentIds, "barefoot")
              /\ PiecesScored(candidates[c]) = Len(candidates[c].garmentIds)
        /\ pc = "Result" =>
              \A i \in DOMAIN Outfits : ~arrIncludes(Outfits[i].garmentIds, "barefoot")


\* C22: for at least 2 pieces the score is min(100, 50 + color + mood +
\* style + occasion + versatility + diversity), with color in 0..20, mood in
\* 0..20, style in 0..15, occasion in 0..12, versatility in 0..8, and
\* diversity 10 for at least 3 pieces and 5 otherwise
C22_ScoreSum ==
    (Scored /\ Len(pieces) >= 2) =>
        /\ subScores[1].color \in 0..20
        /\ subScores[1].mood \in 0..20
        /\ subScores[1].style \in 0..15
        /\ subScores[1].occasion \in 0..12
        /\ subScores[1].versatility \in 0..8
        /\ subScores[1].diversity = (IF Len(pieces) >= 3 THEN 10 ELSE 5)
        /\ subScores[1].total =
              Min(100, 50 + subScores[1].color + subScores[1].mood
                          + subScores[1].style + subScores[1].occasion
                          + subScores[1].versatility + subScores[1].diversity)

\* three pieces whose sub-scores add up to more than 100, with the mood and
\* style sub-scores at their maxima
C22_Witness ==
    /\ Scored
    /\ Len(pieces) = 3
    /\ subScores[1].mood = 20
    /\ subScores[1].style = 15
    /\ subScores[1].diversity = 10
    /\ 50 + subScores[1].color + subScores[1].mood + subScores[1].style
          + subScores[1].occasion + subScores[1].versatility
          + subScores[1].diversity > 100
    /\ subScores[1].total = 100


\* the six style keywords
StyleKeywords ==
    {Word("minimalist"), Word("bold"), Word("classic"), Word("trendy"),
     Word("avant-garde"), Word("casual")}

\* the piece has a tag in which the keyword occurs
Carries(piece, keyword) ==
    \E k \in DOMAIN piece.tags : strIncludes(piece.tags[k], keyword)

\* some piece of the list carries the keyword
Present(ps, keyword) == \E i \in DOMAIN ps : Carries(ps[i], keyword)

\* C23: for at least 2 pieces the style-coherence sub-score is 5 when no
\* piece carries a style keyword; else 15 exactly when some style keyword is
\* carried by two different pieces; else 10 when classic is present together
\* with minimalist or with bold; else 5
C23_StyleCoherence ==
    (Scored /\ Len(pieces) >= 2) =>
        subScores[1].style =
            IF \A kw \in StyleKeywords : ~Present(pieces, kw) THEN 5
            ELSE IF \E kw \in StyleKeywords : \E i, j \in DOMAIN pieces :
                        i # j /\ Carries(pieces[i], kw) /\ Carries(pieces[j], kw)
                 THEN 15
            ELSE IF /\ Present(pieces, Word("classic"))
                    /\ \/ Present(pieces, Word("minimalist"))
                       \/ Present(pieces, Word("bold"))
                 THEN 10
            ELSE 5


\* number of the pieces that have the tag
CountTagged(ps, tag) ==
    Cardinality({i \in DOMAIN ps : \E k \in DOMAIN ps[i].tags : ps[i].tags[k] = tag})

\* C24: the versatility sub-score is min(8, 2 * pieces tagged versatile-high
\* + pieces tagged versatile-medium), a piece tagged with both counted in both
C24_Versatility ==
    Scored =>
        subScores[1].versatility =
            Min(8, 2 * CountTagged(pieces, Word("versatile-high"))
                   + CountTagged(pieces, Word("versatile-medium")))


\* the three target keywords of each mood; none for any other value
TargetKeywords(mood) ==
    CASE mood = "casual"      -> {Word("cotton"), Word("denim"), Word("relaxed")}
      [] mood = "formal"      -> {Word("silk"), Word("wool"), Word("structured")}
      [] mood = "adventurous" -> {Word("bold"), Word("colorful"), Word("unique")}
      [] mood = "cozy"        -> {Word("fleece"), Word("warm"), Word("soft")}
      [] mood = "energetic"   -> {Word("bright"), Word("bold"), Word("dynamic")}
      [] mood = "minimalist"  -> {Word("neutral"), Word("simple"), Word("clean")}
      [] mood = "bold"        -> {Word("vibrant"), Word("statement"), Word("eye-catching")}
      [] OTHER                -> {}

\* descriptor d of a piece: its material for d = 0 (empty text when it has
\* none), its d-th tag otherwise
Descriptor(piece, d) ==
    IF d = 0 THEN (IF Has(piece, "material") THEN piece.material ELSE <<>>)
    ELSE piece.tags[d]

\* the descriptors of the pieces that, lowercased, contain a target keyword
\* of the mood; a descriptor is one match, however many keywords it contains
MoodMatches(ps, mood) ==
    {pd \in UNION {{<<i, d>> : d \in 0..Len(ps[i].tags)} : i \in DOMAIN ps} :
        \E kw \in TargetKeywords(mood) :
            strIncludes(toLowerCase(Descriptor(ps[pd[1]], pd[2])), kw)}

\* C25: the mood-alignment sub-score is min(20, 3 * M), M being the number
\* of descriptors of the pieces (lowercased material, each lowercased tag)
\* that contain a target keyword of the mood; it is 0 for a mood without
\* keyword table entry, for which scoring does not throw
C25_MoodAlignment ==
    subScores # <<>> =>
        /\ ~isError(subScores[1])
        /\ subScores[1].mood = Min(20, 3 * Cardinality(MoodMatches(pieces, scoreMood)))
        /\ scoreMood \notin SevenMoods => subScores[1].mood = 0


\* the style keywords that are a tag of some piece
DistinctStyles(ps) ==
    {kw \in StyleKeywords :
        \E i \in DOMAIN ps : \E k \in DOMAIN ps[i].tags : ps[i].tags[k] = kw}

\* the style note the pieces call for: <<note>>, or <<>> for none
ExpectedStyleNote(ps) ==
    LET styles == DistinctStyles(ps)
    IN  IF Cardinality(styles) = 1
        THEN << <<"Cohesive ">> \o (CHOOSE kw \in styles : TRUE) \o <<" aesthetic">> >>
        ELSE IF /\ Word("classic") \in styles
                /\ Word("bold") \in styles \/ Word("minimalist") \in styles
        THEN << <<"Classic foundation with modern twist">> >>
        ELSE <<>>

IsStyleNote(reason) ==
    reason[1] = "Cohesive " \/ reason = <<"Classic foundation with modern twist">>

\* the piece-count note or the neutral-color note
IsEarlyNote(reason) ==
    \/ reason[1] = "Well-balanced outfit with "
    \/ reason = <<"Neutral base for easy coordination">>

\* C26: when the pieces carry exactly one distinct keyword of {minimalist,
\* bold, classic, trendy, avant-garde, casual} the reasons hold the note
\* "Cohesive <keyword> aesthetic"; else, when classic is present with bold
\* or minimalist, the classic-plus-modern note; else no style note. The
\* note comes after the piece-count and neutral-color notes and before the
\* occasion, versatility and mood notes
C26_StyleNote ==
    pieceReasons # <<>> =>
        \A reasons \in {pieceReasons[1]} : \A expected \in {ExpectedStyleNote(pieces)} :
            IF expected = <<>>
            THEN \A k \in DOMAIN reasons : ~IsStyleNote(reasons[k])
            ELSE \E k \in DOMAIN reasons :
                    /\ reasons[k] = expected[1]
                    /\ \A j \in DOMAIN reasons :
                          /\ j # k => ~IsStyleNote(reasons[j])
                          /\ j < k => IsEarlyNote(reasons[j])
                          /\ j > k => ~IsEarlyNote(reasons[j])


\* C27: every generated candidate scores at least 60, so the threshold
\* filter removes none: when at least one candidate is generated the call
\* returns outfits, and it returns the no-high-quality outcome only when no
\* candidate was generated
C27_AlwaysQualifies ==
    /\ \A c \in DOMAIN candidates : candidates[c].score >= 60
    /\ pc \in {"Ranked", "Result", "NoQualifyingOutfits"} =>
          /\ thresholdFilter(candidates) = candidates
          /\ Len(rankedCandidates) = Min(Len(candidates), effectiveLimit(input))
    /\ (Returned /\ Len(candidates) > 0) => (pc = "Result" /\ Len(Outfits) >= 1)
    /\ pc = "NoQualifyingOutfits" => candidates = <<>>

\* several candidates, the lowest scoring exactly 60, all returned
C27_Witness ==
    /\ pc = "Result"
    /\ Len(candidates) >= 2
    /\ candidates[Len(candidates)].score = 60
    /\ Len(Outfits) = Len(candidates)


\* the limit of the request: limitCount, 6 when absent
RequestedLimit == IF Has(input, "limitCount") THEN input.limitCount ELSE 6

\* the generated candidates that are not among the outfits returned
LeftOut ==
    {c \in DOMAIN candidates :
        \A i \in DOMAIN Outfits : Outfits[i].garmentIds # candidates[c].garmentIds}

\* C28: the call returns exactly min(limit, number of candidates scoring at
\* least 60) outfits, the limit being 6 when absent, and no candidate left
\* out scores strictly more than an outfit returned
C28_BestOutfits ==
    Returned =>
        /\ Len(Outfits) =
              Min(RequestedLimit,
                  Cardinality({c \in DOMAIN candidates : candidates[c].score >= 60}))
        /\ \A c \in LeftOut : \A i \in DOMAIN Outfits :
              candidates[c].score <= Outfits[i].score


\* some generate call has started and not settled
SomeCallPending == \E k \in DOMAIN phase : phase[k] # "settled"

\* C29: loading is true in every state in which a generate call has been
\* started and has not settled, also when calls overlap, and false once
\* every started call has settled
C29_Loading ==
    Len(phase) >= 1 => (loading <=> SomeCallPending)


\* every started generate call has settled
AllSettled == Len(phase) >= 1 /\ \A k \in DOMAIN phase : phase[k] = "settled"

\* how the most recently started call settled
LastOutcome == outcome[Len(outcome)][1]

\* C30: once every started generate call has settled (and reset was not
\* called since), the hook exposes what the most recently started call
\* brought, whatever the order of the responses: for a successful call its
\* outfits and explanation with error null, for a failed call no outfits and
\* its error
C30_LastCallWins ==
    (AllSettled /\ ~resetSinceStart) =>
        IF LastOutcome.ok
        THEN /\ hookOutfits = (IF Has(LastOutcome.data, "outfits")
                               THEN LastOutcome.data.outfits ELSE <<>>)
             /\ explanation = (IF Has(LastOutcome.data, "explanation")
                               THEN LastOutcome.data.explanation ELSE <<>>)
             /\ error = <<>>
        ELSE /\ hookOutfits = <<>>
             /\ error = <<LastOutcome.message>>


====
